---- MODULE Spec2Model ----
(***************************************************************************)
(* A model of randomprime's patch pipeline: the door catalog               *)
(* (door_meta.rs), the dependency pools, the registration of patches in    *)
(* build_and_run_patches and patch_iso's handling of the output            *)
(* (patches.rs).                                                           *)
(*                                                                         *)
(* A resource id is a u32; it is kept as the pair <<high 16 bits, low 16   *)
(* bits>> because TLC's integers are 32-bit signed.                        *)
(***************************************************************************)
EXTENDS Integers, Sequences, FiniteSets, TLC

VARIABLES
    \* ---- catalog evaluation (door_meta.rs) ----
    cat_in,         \* the DoorType a catalog function is applied to
    cat_op,         \* which catalog function has been applied ("init": none yet)
    cat_out,        \* what it returned
    \* ---- patch_iso / build_and_run_patches (patches.rs) ----
    pc,             \* position in patch_iso
    config,         \* ParsedConfig
    gc_disc,        \* the in-memory disc: header, files, pak resources, modification log
    areas,          \* the script-object graph of every area of the disc, by room_id
    output_iso,     \* the operations applied to config.output_iso, in order
    result,         \* what patch_iso returned: "none" (running), "Ok", "Err" or "panic"
    err_msg,        \* the Err string
    door_resources, \* the pool collect_door_resources returned
    pickup_resources, \* the pool collect_pickup_resources returned
    patcher,        \* PrimePatcher: the registered patches, in registration order
    room_idx,       \* build_and_run_patches: rooms of PICKUP_LOCATIONS visited so far
    layout_iterator, \* build_and_run_patches: entries of pickup_layout consumed so far
    door_rng,       \* build_and_run_patches: state of door_rng
    run_order,      \* PrimePatcher::run: the registered callbacks in the order of its walk
    run_pos,        \* PrimePatcher::run: callbacks invoked so far
    fresh_instance_id_range, \* PatcherState: the next id it yields
    applied,        \* log: registration indices of the callbacks invoked, in order
    allocated       \* log: the ids fresh_instance_id_range has yielded, in order

cat_vars == <<cat_in, cat_op, cat_out>>
iso_vars == <<pc, config, gc_disc, areas, output_iso, result, err_msg,
              door_resources, pickup_resources, patcher, room_idx, layout_iterator,
              door_rng, run_order, run_pos, fresh_instance_id_range, applied,
              allocated>>
vars == <<cat_vars, iso_vars>>

----------------------------------------------------------------------------
(* Resource ids *)

Id(hi, lo) == <<hi, lo>>

\* a value that has not been computed yet
NoValue == << >>

\* a >= b on the same 32 bits read as i32
GeI32(a, b) ==
    LET Signed(h) == IF h >= \h8000 THEN h - \h10000 ELSE h
    IN  Signed(a[1]) > Signed(b[1]) \/ (a[1] = b[1] /\ a[2] >= b[2])

\* a >= b on u32 values
GeU32(a, b) == a[1] > b[1] \/ (a[1] = b[1] /\ a[2] >= b[2])

IndexOf(seq, x) == CHOOSE i \in 1..Len(seq) : seq[i] = x

SeqToSet(seq) == { seq[i] : i \in 1..Len(seq) }

\* "Custom ids start with 0xDEAFxxxx"
CUSTOM_ID_START == Id(\hDEAF, \h0000)

\* custom_asset_ids of lib.rs, in declaration order: def_asset_ids! gives the
\* first name 0xDEAF0000 and every further name the previous value plus one
LibAssetNames ==
    << "PHAZON_SUIT_SCAN", "PHAZON_SUIT_STRG", "PHAZON_SUIT_TXTR1", "PHAZON_SUIT_TXTR2",
       "PHAZON_SUIT_CMDL", "PHAZON_SUIT_ANCS", "NOTHING_ACQUIRED_HUDMEMO_STRG",
       "NOTHING_SCAN_STRG", "NOTHING_SCAN", "NOTHING_TXTR", "NOTHING_CMDL",
       "NOTHING_ANCS", "THERMAL_VISOR_SCAN", "THERMAL_VISOR_STRG",
       "SCAN_VISOR_ACQUIRED_HUDMEMO_STRG", "SCAN_VISOR_SCAN_STRG", "SCAN_VISOR_SCAN",
       "SKIP_HUDMEMO_STRG_START" >>

SKIP_HUDMEMO_STRG_START ==
    Id(CUSTOM_ID_START[1], CUSTOM_ID_START[2] + IndexOf(LibAssetNames, "SKIP_HUDMEMO_STRG_START") - 1)

SKIP_HUDMEMO_STRG_END == Id(SKIP_HUDMEMO_STRG_START[1], SKIP_HUDMEMO_STRG_START[2] + 37)

\* The names door_meta.rs and patches.rs use from crate::custom_assets and for
\* the shiny missile; their values continue the sequence after
\* SKIP_HUDMEMO_STRG_END.
DoorAssetNames ==
    << "POWER_BOMB_DOOR_CMDL", "MORPH_BALL_BOMB_DOOR_CMDL", "MISSILE_DOOR_CMDL",
       "CHARGE_DOOR_CMDL", "SUPER_MISSILE_DOOR_CMDL", "DISABLED_DOOR_CMDL",
       "WAVEBUSTER_DOOR_CMDL", "ICESPREADER_DOOR_CMDL", "FLAMETHROWER_DOOR_CMDL",
       "AI_DOOR_CMDL",
       "VERTICAL_RED_DOOR_CMDL", "VERTICAL_POWER_BOMB_DOOR_CMDL",
       "VERTICAL_MORPH_BALL_BOMB_DOOR_CMDL", "VERTICAL_MISSILE_DOOR_CMDL",
       "VERTICAL_CHARGE_DOOR_CMDL", "VERTICAL_SUPER_MISSILE_DOOR_CMDL",
       "VERTICAL_DISABLED_DOOR_CMDL", "VERTICAL_WAVEBUSTER_DOOR_CMDL",
       "VERTICAL_ICESPREADER_DOOR_CMDL", "VERTICAL_FLAMETHROWER_DOOR_CMDL",
       "VERTICAL_AI_DOOR_CMDL",
       "POWER_BOMB_DOOR_TXTR", "MORPH_BALL_BOMB_DOOR_TXTR", "SUPER_MISSILE_DOOR_TXTR",
       "WAVEBUSTER_DOOR_TXTR", "ICESPREADER_DOOR_TXTR", "FLAMETHROWER_DOOR_TXTR",
       "AI_DOOR_TXTR",
       "SHINY_MISSILE_SCAN", "SHINY_MISSILE_SCAN_STRG", "SHINY_MISSILE_CMDL",
       "SHINY_MISSILE_ANCS", "SHINY_MISSILE_ACQUIRED_HUDMEMO_STRG",
       "POWER_BOMB_BLAST_SHIELD_CMDL", "SUPER_BLAST_SHIELD_CMDL",
       "WAVEBUSTER_BLAST_SHIELD_CMDL", "ICESPREADER_BLAST_SHIELD_CMDL",
       "FLAMETHROWER_BLAST_SHIELD_CMDL",
       "POWER_BOMB_BLAST_SHIELD_TXTR", "SUPER_BLAST_SHIELD_TXTR",
       "WAVEBUSTER_BLAST_SHIELD_TXTR", "ICESPREADER_BLAST_SHIELD_TXTR",
       "FLAMETHROWER_BLAST_SHIELD_TXTR",
       "BLAST_SHIELD_ALT_TXTR0", "BLAST_SHIELD_ALT_TXTR1", "BLAST_SHIELD_ALT_TXTR2",
       "POWER_BOMB_BLAST_SHIELD_SCAN", "SUPER_BLAST_SHIELD_SCAN",
       "WAVEBUSTER_BLAST_SHIELD_SCAN", "ICESPREADER_BLAST_SHIELD_SCAN",
       "FLAMETHROWER_BLAST_SHIELD_SCAN",
       "POWER_BOMB_BLAST_SHIELD_STRG", "SUPER_BLAST_SHIELD_STRG",
       "WAVEBUSTER_BLAST_SHIELD_STRG", "ICESPREADER_BLAST_SHIELD_STRG",
       "FLAMETHROWER_BLAST_SHIELD_STRG" >>

custom_asset_ids(name) ==
    IF name \in SeqToSet(LibAssetNames)
    THEN Id(CUSTOM_ID_START[1], CUSTOM_ID_START[2] + IndexOf(LibAssetNames, name) - 1)
    ELSE Id(SKIP_HUDMEMO_STRG_END[1], SKIP_HUDMEMO_STRG_END[2] + IndexOf(DoorAssetNames, name))

----------------------------------------------------------------------------
(* door_meta.rs: the door catalog *)

Normal == 1
Reflect == 2
Immune == 3

\* DoorType::iter(), in its order
DoorTypeIter ==
    << "Blue", "PowerOnly", "Purple", "White", "Red", "PowerBomb", "Bomb", "Boost",
       "Missile", "Charge", "Super", "Disabled", "Wavebuster", "Icespreader",
       "Flamethrower", "Ai",
       "VerticalBlue", "VerticalPowerOnly", "VerticalPurple", "VerticalWhite",
       "VerticalRed", "VerticalPowerBomb", "VerticalBomb", "VerticalMissile",
       "VerticalCharge", "VerticalSuper", "VerticalDisabled", "VerticalWavebuster",
       "VerticalIcespreader", "VerticalFlamethrower", "VerticalAi" >>

DoorType == SeqToSet(DoorTypeIter)

is_vertical(self) ==
    self \in { "VerticalBlue", "VerticalPowerOnly", "VerticalPurple", "VerticalWhite",
               "VerticalRed", "VerticalPowerBomb", "VerticalBomb", "VerticalMissile",
               "VerticalCharge", "VerticalSuper", "VerticalDisabled",
               "VerticalWavebuster", "VerticalIcespreader", "VerticalFlamethrower",
               "VerticalAi" }

to_vertical(self) ==
    CASE self = "Blue"         -> "VerticalBlue"
      [] self = "PowerOnly"    -> "VerticalPowerOnly"
      [] self = "Purple"       -> "VerticalPurple"
      [] self = "White"        -> "VerticalWhite"
      [] self = "Red"          -> "VerticalRed"
      [] self = "PowerBomb"    -> "VerticalPowerBomb"
      [] self = "Bomb"         -> "VerticalBomb"
      [] self = "Missile"      -> "VerticalMissile"
      [] self = "Charge"       -> "VerticalCharge"
      [] self = "Super"        -> "VerticalSuper"
      [] self = "Disabled"     -> "VerticalDisabled"
      [] self = "Wavebuster"   -> "VerticalWavebuster"
      [] self = "Icespreader"  -> "VerticalIcespreader"
      [] self = "Flamethrower" -> "VerticalFlamethrower"
      [] self = "Ai"           -> "VerticalAi"
      [] OTHER                 -> self

\* the base variant a vertical arm of forcefield_txtr, holorim_texture and
\* vulnerability forwards to
VerticalBase(self) ==
    CASE self = "VerticalBlue"         -> "Blue"
      [] self = "VerticalPowerOnly"    -> "PowerOnly"
      [] self = "VerticalPurple"       -> "Purple"
      [] self = "VerticalWhite"        -> "White"
      [] self = "VerticalRed"          -> "Red"
      [] self = "VerticalPowerBomb"    -> "PowerBomb"
      [] self = "VerticalBomb"         -> "Bomb"
      [] self = "VerticalMissile"      -> "Missile"
      [] self = "VerticalCharge"       -> "Charge"
      [] self = "VerticalSuper"        -> "Super"
      [] self = "VerticalDisabled"     -> "Disabled"
      [] self = "VerticalWavebuster"   -> "Wavebuster"
      [] self = "VerticalIcespreader"  -> "Icespreader"
      [] self = "VerticalFlamethrower" -> "Flamethrower"
      [] self = "VerticalAi"           -> "Ai"

shield_cmdl(self) ==
    CASE self = "Blue"         -> Id(\h0734, \h977A)
      [] self = "PowerOnly"    -> Id(\h0734, \h977A)
      [] self = "Purple"       -> Id(\h3318, \h8D1B)
      [] self = "White"        -> Id(\h5964, \h9E9D)
      [] self = "Red"          -> Id(\hBBBA, \h1EC7)
      [] self = "Boost"        -> Id(\h0734, \h977A)
      [] self = "PowerBomb"    -> custom_asset_ids("POWER_BOMB_DOOR_CMDL")
      [] self = "Bomb"         -> custom_asset_ids("MORPH_BALL_BOMB_DOOR_CMDL")
      [] self = "Missile"      -> custom_asset_ids("MISSILE_DOOR_CMDL")
      [] self = "Charge"       -> custom_asset_ids("CHARGE_DOOR_CMDL")
      [] self = "Super"        -> custom_asset_ids("SUPER_MISSILE_DOOR_CMDL")
      [] self = "Disabled"     -> custom_asset_ids("DISABLED_DOOR_CMDL")
      [] self = "Wavebuster"   -> custom_asset_ids("WAVEBUSTER_DOOR_CMDL")
      [] self = "Icespreader"  -> custom_asset_ids("ICESPREADER_DOOR_CMDL")
      [] self = "Flamethrower" -> custom_asset_ids("FLAMETHROWER_DOOR_CMDL")
      [] self = "Ai"           -> custom_asset_ids("AI_DOOR_CMDL")
      [] self = "VerticalBlue"         -> Id(\h18D0, \hAEE6)
      [] self = "VerticalPowerOnly"    -> Id(\h18D0, \hAEE6)
      [] self = "VerticalPurple"       -> Id(\h095B, \h0B93)
      [] self = "VerticalWhite"        -> Id(\hB7A8, \hA4C9)
      [] self = "VerticalRed"          -> custom_asset_ids("VERTICAL_RED_DOOR_CMDL")
      [] self = "VerticalPowerBomb"    -> custom_asset_ids("VERTICAL_POWER_BOMB_DOOR_CMDL")
      [] self = "VerticalBomb"         -> custom_asset_ids("VERTICAL_MORPH_BALL_BOMB_DOOR_CMDL")
      [] self = "VerticalMissile"      -> custom_asset_ids("VERTICAL_MISSILE_DOOR_CMDL")
      [] self = "VerticalCharge"       -> custom_asset_ids("VERTICAL_CHARGE_DOOR_CMDL")
      [] self = "VerticalSuper"        -> custom_asset_ids("VERTICAL_SUPER_MISSILE_DOOR_CMDL")
      [] self = "VerticalDisabled"     -> custom_asset_ids("VERTICAL_DISABLED_DOOR_CMDL")
      [] self = "VerticalWavebuster"   -> custom_asset_ids("VERTICAL_WAVEBUSTER_DOOR_CMDL")
      [] self = "VerticalIcespreader"  -> custom_asset_ids("VERTICAL_ICESPREADER_DOOR_CMDL")
      [] self = "VerticalFlamethrower" -> custom_asset_ids("VERTICAL_FLAMETHROWER_DOOR_CMDL")
      [] self = "VerticalAi"           -> custom_asset_ids("VERTICAL_AI_DOOR_CMDL")

RECURSIVE forcefield_txtr(_)
forcefield_txtr(self) ==
    CASE self = "Blue"         -> Id(\h8A7F, \h3683)
      [] self = "PowerOnly"    -> Id(\h8A7F, \h3683)
      [] self = "Purple"       -> Id(\hF68D, \hF7F1)
      [] self = "White"        -> Id(\hBE4C, \hD99D)
      [] self = "Red"          -> Id(\hFC09, \h5F6C)
      [] self = "Boost"        -> Id(\h8A7F, \h3683)
      [] self = "PowerBomb"    -> Id(\h1D58, \h8B22)
      [] self = "Bomb"         -> Id(\hFC09, \h5F6C)
      [] self = "Missile"      -> Id(\h8344, \hBEC8)
      [] self = "Charge"       -> Id(\h8A7F, \h3683)
      [] self = "Super"        -> Id(\hD5C1, \h7775)
      [] self = "Disabled"     -> Id(\h717A, \hABCE)
      [] self = "Wavebuster"   -> Id(\hF68D, \hF7F1)
      [] self = "Icespreader"  -> Id(\hBE4C, \hD99D)
      [] self = "Flamethrower" -> Id(\hFC09, \h5F6C)
      [] self = "Ai"           -> Id(\h717A, \hABCE)
      [] OTHER                 -> forcefield_txtr(VerticalBase(self))

RECURSIVE holorim_texture(_)
holorim_texture(self) ==
    CASE self = "Blue"         -> Id(\h88ED, \h4593)
      [] self = "PowerOnly"    -> Id(\h88ED, \h4593)
      [] self = "Purple"       -> Id(\hAB03, \h1EA9)
      [] self = "White"        -> Id(\hF687, \h0C9F)
      [] self = "Red"          -> Id(\h61A6, \h945B)
      [] self = "Boost"        -> Id(\h88ED, \h4593)
      [] self = "PowerBomb"    -> custom_asset_ids("POWER_BOMB_DOOR_TXTR")
      [] self = "Bomb"         -> custom_asset_ids("MORPH_BALL_BOMB_DOOR_TXTR")
      [] self = "Missile"      -> Id(\h4595, \h82C1)
      [] self = "Charge"       -> Id(\hC7C8, \hAF66)
      [] self = "Super"        -> custom_asset_ids("SUPER_MISSILE_DOOR_TXTR")
      [] self = "Wavebuster"   -> custom_asset_ids("WAVEBUSTER_DOOR_TXTR")
      [] self = "Icespreader"  -> custom_asset_ids("ICESPREADER_DOOR_TXTR")
      [] self = "Flamethrower" -> custom_asset_ids("FLAMETHROWER_DOOR_TXTR")
      [] self = "Disabled"     -> Id(\h717A, \hABCE)
      [] self = "Ai"           -> custom_asset_ids("AI_DOOR_TXTR")
      [] OTHER                 -> holorim_texture(VerticalBase(self))

\* DoorType::dependencies: (id, FourCC) pairs, in push order
dependencies(self) ==
    << <<shield_cmdl(self), "CMDL">>, <<forcefield_txtr(self), "TXTR">> >>
    \o (IF holorim_texture(self) # Id(0, 0)
        THEN << <<holorim_texture(self), "TXTR">> >> ELSE << >>)
    \o (IF shield_cmdl(self) = Id(\hDAAC, \h77CB)
        THEN << <<Id(\hB516, \hD300), "TXTR">>, <<Id(\h8D4E, \hF1D8), "TXTR">>,
                <<Id(\h7D81, \hB904), "TXTR">> >>
        ELSE << >>)

\* structs ChargedBeams / BeamCombos / DamageVulnerability, field by field
ChargedBeams(p, i, w, pl, ph) ==
    [power |-> p, ice |-> i, wave |-> w, plasma |-> pl, phazon |-> ph]

BeamCombos(p, i, w, pl, ph) ==
    [power |-> p, ice |-> i, wave |-> w, plasma |-> pl, phazon |-> ph]

\* a DamageVulnerability whose last unknown weapon is left at the zero default
DamageVulnerabilityDefaulted(p, i, w, pl, b, pb, m, bb, ph, ew, uw, cb, bc) ==
    [power |-> p, ice |-> i, wave |-> w, plasma |-> pl, bomb |-> b,
     power_bomb |-> pb, missile |-> m, boost_ball |-> bb, phazon |-> ph,
     enemy_weapon0 |-> ew[1], enemy_weapon1 |-> ew[2],
     enemy_weapon2 |-> ew[3], enemy_weapon3 |-> ew[4],
     unknown_weapon0 |-> uw[1], unknown_weapon1 |-> uw[2], unknown_weapon2 |-> 0,
     charged_beams |-> cb, beam_combos |-> bc]

DamageVulnerability(p, i, w, pl, b, pb, m, bb, ph, ew, uw, cb, bc) ==
    [power |-> p, ice |-> i, wave |-> w, plasma |-> pl, bomb |-> b,
     power_bomb |-> pb, missile |-> m, boost_ball |-> bb, phazon |-> ph,
     enemy_weapon0 |-> ew[1], enemy_weapon1 |-> ew[2],
     enemy_weapon2 |-> ew[3], enemy_weapon3 |-> ew[4],
     unknown_weapon0 |-> uw[1], unknown_weapon1 |-> uw[2], unknown_weapon2 |-> uw[3],
     charged_beams |-> cb, beam_combos |-> bc]

\* the sixteen literal arms of DoorType::vulnerability
vulnerability_table(self) ==
      CASE self = "Blue" ->
          DamageVulnerability(Normal, Normal, Normal, Normal, Normal,
              Normal, Normal, Reflect, Normal,
              <<Immune, Immune, Immune, Immune>>, <<Immune, Immune, Immune>>,
              ChargedBeams(Normal, Normal, Normal, Normal, Normal),
              BeamCombos(Normal, Normal, Normal, Normal, Normal))
        [] self = "PowerOnly" ->
          DamageVulnerability(Normal, Reflect, Reflect, Reflect, Immune,
              Immune, Reflect, Reflect, Reflect,
              <<Immune, Immune, Immune, Immune>>, <<Immune, Immune, Immune>>,
              ChargedBeams(Normal, Reflect, Reflect, Reflect, Reflect),
              BeamCombos(Normal, Reflect, Reflect, Reflect, Reflect))
        [] self = "Purple" ->
          DamageVulnerability(Reflect, Reflect, Normal, Reflect, Immune,
              Immune, Reflect, Reflect, Immune,
              <<Immune, Immune, Immune, Immune>>, <<Immune, Immune, Immune>>,
              ChargedBeams(Reflect, Reflect, Normal, Reflect, Reflect),
              BeamCombos(Reflect, Reflect, Normal, Reflect, Reflect))
        [] self = "White" ->
          DamageVulnerability(Reflect, Normal, Reflect, Reflect, Immune,
              Immune, Reflect, Reflect, Immune,
              <<Immune, Immune, Immune, Immune>>, <<Immune, Immune, Immune>>,
              ChargedBeams(Reflect, Normal, Reflect, Reflect, Reflect),
              BeamCombos(Reflect, Normal, Reflect, Reflect, Reflect))
        [] self = "Red" ->
          DamageVulnerability(Reflect, Reflect, Reflect, Normal, Immune,
              Immune, Reflect, Reflect, Immune,
              <<Immune, Immune, Immune, Immune>>, <<Immune, Immune, Immune>>,
              ChargedBeams(Reflect, Reflect, Reflect, Normal, Reflect),
              BeamCombos(Reflect, Reflect, Reflect, Normal, Reflect))
        [] self = "PowerBomb" ->
          DamageVulnerability(Reflect, Reflect, Reflect, Reflect, Immune,
              Normal, Reflect, Reflect, Immune,
              <<Immune, Immune, Immune, Immune>>, <<Immune, Immune, Immune>>,
              ChargedBeams(Reflect, Reflect, Reflect, Reflect, Reflect),
              BeamCombos(Reflect, Reflect, Reflect, Reflect, Reflect))
        [] self = "Bomb" ->
          DamageVulnerability(Reflect, Reflect, Reflect, Reflect, Normal,
              Immune, Reflect, Reflect, Immune,
              <<Immune, Immune, Immune, Immune>>, <<Immune, Immune, Immune>>,
              ChargedBeams(Reflect, Reflect, Reflect, Reflect, Reflect),
              BeamCombos(Reflect, Reflect, Reflect, Reflect, Reflect))
        [] self = "Boost" ->
          DamageVulnerability(Reflect, Reflect, Reflect, Reflect, Immune,
              Immune, Reflect, Normal, Immune,
              <<Immune, Immune, Immune, Immune>>, <<Immune, Immune, Immune>>,
              ChargedBeams(Reflect, Reflect, Reflect, Reflect, Reflect),
              BeamCombos(Reflect, Reflect, Reflect, Reflect, Reflect))
        [] self = "Missile" ->
          DamageVulnerability(Reflect, Reflect, Reflect, Reflect, Immune,
              Immune, Normal, Reflect, Immune,
              <<Immune, Immune, Immune, Immune>>, <<Immune, Immune, Immune>>,
              ChargedBeams(Reflect, Reflect, Reflect, Reflect, Reflect),
              BeamCombos(Reflect, Reflect, Reflect, Reflect, Reflect))
        [] self = "Charge" ->
          DamageVulnerability(Reflect, Reflect, Reflect, Reflect, Immune,
              Immune, Reflect, Reflect, Immune,
              <<Immune, Immune, Immune, Immune>>, <<Immune, Immune, Immune>>,
              ChargedBeams(Normal, Normal, Normal, Normal, Reflect),
              BeamCombos(Reflect, Reflect, Reflect, Reflect, Reflect))
        [] self = "Super" ->
          DamageVulnerability(Reflect, Reflect, Reflect, Reflect, Immune,
              Immune, Reflect, Reflect, Immune,
              <<Immune, Immune, Immune, Immune>>, <<Immune, Immune, Immune>>,
              ChargedBeams(Reflect, Reflect, Reflect, Reflect, Reflect),
              BeamCombos(Normal, Reflect, Reflect, Reflect, Reflect))
        [] self = "Wavebuster" ->
          DamageVulnerability(Reflect, Reflect, Reflect, Reflect, Immune,
              Immune, Reflect, Reflect, Immune,
              <<Immune, Immune, Immune, Immune>>, <<Immune, Immune, Immune>>,
              ChargedBeams(Reflect, Reflect, Reflect, Reflect, Reflect),
              BeamCombos(Reflect, Reflect, Normal, Reflect, Reflect))
        [] self = "Icespreader" ->
          DamageVulnerability(Reflect, Reflect, Reflect, Reflect, Immune,
              Immune, Reflect, Reflect, Immune,
              <<Immune, Immune, Immune, Immune>>, <<Immune, Immune, Immune>>,
              ChargedBeams(Reflect, Reflect, Reflect, Reflect, Reflect),
              BeamCombos(Reflect, Normal, Reflect, Reflect, Reflect))
        [] self = "Flamethrower" ->
          DamageVulnerability(Reflect, Reflect, Reflect, Reflect, Immune,
              Immune, Reflect, Reflect, Immune,
              <<Immune, Immune, Immune, Immune>>, <<Immune, Immune, Immune>>,
              ChargedBeams(Reflect, Reflect, Reflect, Reflect, Reflect),
              BeamCombos(Reflect, Reflect, Reflect, Normal, Reflect))
        [] self = "Disabled" ->
          DamageVulnerability(Immune, Immune, Immune, Immune, Immune,
              Immune, Immune, Immune, Normal,
              <<Immune, Immune, Immune, Immune>>, <<Immune, Immune, Immune>>,
              ChargedBeams(Immune, Immune, Immune, Immune, Normal),
              BeamCombos(Immune, Immune, Immune, Immune, Normal))
        [] self = "Ai" ->
          DamageVulnerability(Reflect, Reflect, Reflect, Reflect, Immune,
              Immune, Reflect, Immune, Normal,
              <<Normal, Normal, Normal, Normal>>, <<Normal, Normal, Normal>>,
              ChargedBeams(Reflect, Reflect, Reflect, Reflect, Normal),
              BeamCombos(Reflect, Reflect, Reflect, Reflect, Normal))

\* a vertical arm that forwards to the wrong base variant
vulnerability_wrong_arm(self) ==
    CASE self = "VerticalMissile" -> vulnerability_table("Charge")
      [] self = "VerticalBlue"    -> vulnerability_table("PowerOnly")
      [] is_vertical(self)        -> vulnerability_table(VerticalBase(self))
      [] OTHER                    -> vulnerability_table(self)

\* DoorType::vulnerability: the vertical arms forward to the base variant
vulnerability(self) ==
    CASE is_vertical(self) -> vulnerability_table(VerticalBase(self))
      [] OTHER             -> vulnerability_table(self)

\* BlastShieldType::iter(), in its order
BlastShieldTypeIter ==
    << "Missile", "PowerBomb", "Super", "Wavebuster", "Icespreader", "Flamethrower" >>

BlastShieldType == SeqToSet(BlastShieldTypeIter)

\* the prefix of the custom_asset_ids names of a blast shield type; Missile
\* is the vanilla missile lock and has none
BlastShieldAssetPrefix(self) ==
    CASE self = "PowerBomb"    -> "POWER_BOMB"
      [] self = "Super"        -> "SUPER"
      [] self = "Wavebuster"   -> "WAVEBUSTER"
      [] self = "Icespreader"  -> "ICESPREADER"
      [] self = "Flamethrower" -> "FLAMETHROWER"

\* BlastShieldType::cmdl
BlastShieldType_cmdl(self) ==
    IF self = "Missile" THEN Id(\hEFDF, \hFB8C)
    ELSE custom_asset_ids(BlastShieldAssetPrefix(self) \o "_BLAST_SHIELD_CMDL")

\* BlastShieldType::dependencies: cmdl, metal_body_txtr, glow_border_txtr,
\* glow_trim_txtr, animated_glow_txtr, metal_trim_txtr, scan and strg in push
\* order, then retain(|i| i.0 != 0xffffffff && i.0 != 0)
BlastShieldType_dependencies(self) ==
    LET vanilla == self = "Missile"
        \* ResId::invalid()
        InvalidId == Id(\hFFFF, \hFFFF)
        Custom(suffix) == custom_asset_ids(BlastShieldAssetPrefix(self) \o suffix)
        data ==
            << <<BlastShieldType_cmdl(self), "CMDL">>,
               <<IF vanilla THEN Id(\h6E09, \hEA6B) ELSE Custom("_BLAST_SHIELD_TXTR"), "TXTR">>,
               <<IF vanilla THEN Id(\h5B97, \h098E)
                 ELSE custom_asset_ids("BLAST_SHIELD_ALT_TXTR0"), "TXTR">>,
               <<IF vanilla THEN Id(\h5C7B, \h215C)
                 ELSE custom_asset_ids("BLAST_SHIELD_ALT_TXTR1"), "TXTR">>,
               <<IF vanilla THEN Id(\hFA0C, \h2AE8)
                 ELSE custom_asset_ids("BLAST_SHIELD_ALT_TXTR2"), "TXTR">>,
               <<Id(\hFDE0, \h023A), "TXTR">>,
               <<IF vanilla THEN InvalidId ELSE Custom("_BLAST_SHIELD_SCAN"), "SCAN">>,
               <<IF vanilla THEN InvalidId ELSE Custom("_BLAST_SHIELD_STRG"), "STRG">> >>
    IN  SelectSeq(data, LAMBDA i : i[1] # InvalidId /\ i[1] # Id(0, 0))

\* BlastShieldType::vulnerability: "just re-use the door vulnerabilites"
BlastShieldType_vulnerability(self) ==
    CASE self = "Missile"      -> vulnerability("Missile")
      [] self = "PowerBomb"    -> vulnerability("PowerBomb")
      [] self = "Super"        -> vulnerability("Super")
      [] self = "Wavebuster"   -> vulnerability("Wavebuster")
      [] self = "Icespreader"  -> vulnerability("Icespreader")
      [] self = "Flamethrower" -> vulnerability("Flamethrower")

----------------------------------------------------------------------------
(* pickup_meta.rs: the pickup catalog *)

\* PickupType::iter(), in its order
PickupTypeIter ==
    << "Missile", "EnergyTank", "ThermalVisor", "XRayVisor", "VariaSuit", "GravitySuit",
       "PhazonSuit", "MorphBall", "BoostBall", "SpiderBall", "MorphBallBomb",
       "PowerBombExpansion", "PowerBomb", "ChargeBeam", "SpaceJumpBoots", "GrappleBeam",
       "SuperMissile", "Wavebuster", "IceSpreader", "Flamethrower", "WaveBeam",
       "IceBeam", "PlasmaBeam", "ArtifactOfLifegiver", "ArtifactOfWild",
       "ArtifactOfWorld", "ArtifactOfSun", "ArtifactOfElder", "ArtifactOfSpirit",
       "ArtifactOfTruth", "ArtifactOfChozo", "ArtifactOfWarrior", "ArtifactOfNewborn",
       "ArtifactOfNature", "ArtifactOfStrength", "Nothing", "ScanVisor" >>

idx(self) == IndexOf(PickupTypeIter, self) - 1

\* PickupType::from_idx: None is NoPickupType
NoPickupType == "None"

from_idx(i) == IF i \in 0..36 THEN PickupTypeIter[i + 1] ELSE NoPickupType

is_artifact(self) ==
    self \in { "ArtifactOfLifegiver", "ArtifactOfWild", "ArtifactOfWorld", "ArtifactOfSun",
               "ArtifactOfElder", "ArtifactOfSpirit", "ArtifactOfTruth", "ArtifactOfChozo",
               "ArtifactOfWarrior", "ArtifactOfNewborn", "ArtifactOfNature",
               "ArtifactOfStrength" }

\* ids of the vanilla resources that resource_info! names
resource_info(name) ==
    CASE name = "blueShield_v1.CMDL" -> <<Id(\h0734, \h977A), "CMDL">>
      [] name = "18D0AEE6.CMDL"      -> <<Id(\h18D0, \hAEE6), "CMDL">>
      [] name = "Node1_11.CMDL"      -> <<Id(\h0100, 5), "CMDL">>
      [] name = "Node1_11.ANCS"      -> <<Id(\h0200, 5), "ANCS">>
      [] name = "Node1_36_0.CMDL"    -> <<Id(\h0100, 0), "CMDL">>
      [] name = "Node1_37_0.ANCS"    -> <<Id(\h0200, 0), "ANCS">>

\* the kind field of PickupType::pickup_data(): the artifacts have the
\* twelve kinds 29..40
pickup_kind(self) == IF is_artifact(self) THEN 29 + (idx(self) - 23) ELSE idx(self) % 29

\* PickupType::hudmemo_strg
hudmemo_strg(self) ==
    CASE self = "Nothing"   -> custom_asset_ids("NOTHING_ACQUIRED_HUDMEMO_STRG")
      [] self = "ScanVisor" -> custom_asset_ids("SCAN_VISOR_ACQUIRED_HUDMEMO_STRG")
      [] OTHER              -> Id(\h0300, idx(self))

\* PickupType::dependencies: the model and animation set of the pickup, and
\* the textures and scan of the tool's own pickups
pickup_dependencies(self) ==
    CASE self = "Nothing" ->
           << <<custom_asset_ids("NOTHING_CMDL"), "CMDL">>,
              <<custom_asset_ids("NOTHING_ANCS"), "ANCS">>,
              <<custom_asset_ids("NOTHING_TXTR"), "TXTR">>,
              <<custom_asset_ids("PHAZON_SUIT_TXTR2"), "TXTR">>,
              <<custom_asset_ids("NOTHING_SCAN"), "SCAN">>,
              <<custom_asset_ids("NOTHING_SCAN_STRG"), "STRG">> >>
      [] self = "PhazonSuit" ->
           << <<custom_asset_ids("PHAZON_SUIT_CMDL"), "CMDL">>,
              <<custom_asset_ids("PHAZON_SUIT_ANCS"), "ANCS">>,
              <<custom_asset_ids("PHAZON_SUIT_TXTR1"), "TXTR">>,
              <<custom_asset_ids("PHAZON_SUIT_TXTR2"), "TXTR">>,
              <<custom_asset_ids("PHAZON_SUIT_SCAN"), "SCAN">>,
              <<custom_asset_ids("PHAZON_SUIT_STRG"), "STRG">> >>
      [] self = "ThermalVisor" ->
           << <<Id(\h0100, idx(self)), "CMDL">>, <<Id(\h0200, idx(self)), "ANCS">>,
              <<custom_asset_ids("THERMAL_VISOR_SCAN"), "SCAN">>,
              <<custom_asset_ids("THERMAL_VISOR_STRG"), "STRG">> >>
      [] self = "ScanVisor" ->
           << <<Id(\h0100, idx(self)), "CMDL">>, <<Id(\h0200, idx(self)), "ANCS">>,
              <<custom_asset_ids("SCAN_VISOR_SCAN"), "SCAN">>,
              <<custom_asset_ids("SCAN_VISOR_SCAN_STRG"), "STRG">> >>
      [] OTHER ->
           << <<Id(\h0100, idx(self)), "CMDL">>, <<Id(\h0200, idx(self)), "ANCS">> >>

\* EXTRA_ASSETS / extra_assets(): the bundled pickup textures
extra_assets ==
    << <<custom_asset_ids("PHAZON_SUIT_TXTR1"), "TXTR">>,
       <<custom_asset_ids("PHAZON_SUIT_TXTR2"), "TXTR">>,
       <<custom_asset_ids("NOTHING_TXTR"), "TXTR">> >>

\* extra_assets_doors(): the bundled door textures
extra_assets_doors ==
    << <<custom_asset_ids("POWER_BOMB_DOOR_TXTR"), "TXTR">>,
       <<custom_asset_ids("MORPH_BALL_BOMB_DOOR_TXTR"), "TXTR">>,
       <<custom_asset_ids("SUPER_MISSILE_DOOR_TXTR"), "TXTR">>,
       <<custom_asset_ids("WAVEBUSTER_DOOR_TXTR"), "TXTR">>,
       <<custom_asset_ids("ICESPREADER_DOOR_TXTR"), "TXTR">>,
       <<custom_asset_ids("FLAMETHROWER_DOOR_TXTR"), "TXTR">>,
       <<custom_asset_ids("AI_DOOR_TXTR"), "TXTR">> >>

----------------------------------------------------------------------------
(* patches.rs: the dependency pools *)

\* the pak names of pickup_meta::PICKUP_LOCATIONS, in its order
PakNames ==
    << "Metroid1.pak", "Metroid2.pak", "Metroid3.pak", "Metroid4.pak", "metroid5.pak",
       "Metroid6.pak", "Metroid7.pak" >>

\* looking_for of collect_door_resources
DoorLookingFor == UNION { SeqToSet(dependencies(dt)) : dt \in DoorType }

\* looking_for of collect_pickup_resources
PickupLookingFor ==
    UNION { SeqToSet(pickup_dependencies(pt)) : pt \in SeqToSet(PickupTypeIter) }
    \cup { <<hudmemo_strg(pt), "STRG">> : pt \in SeqToSet(PickupTypeIter) }

\* assert!(found.insert(key, res).is_none())
FoundInsert(st, key, src) ==
    IF key \in DOMAIN st.found
    THEN [st EXCEPT !.panicked = TRUE]
    ELSE [st EXCEPT !.found = @ @@ (key :> src)]

\* for res in extra_assets { looking_for.remove(..); assert!(found.insert(..)) }
RECURSIVE AddExtraAssets(_, _)
AddExtraAssets(st, assets) ==
    IF assets = << >> \/ st.panicked
    THEN st
    ELSE AddExtraAssets(
            FoundInsert([st EXCEPT !.looking_for = @ \ {Head(assets)}], Head(assets), "extra"),
            Tail(assets))

\* a mistaken scan: the key stays in looking_for when it is moved to the pool
RECURSIVE AddLookedForKept(_, _, _)
AddLookedForKept(st, resources, src) ==
    IF resources = << >> \/ st.panicked
    THEN st
    ELSE IF Head(resources) \in st.looking_for
         THEN AddLookedForKept(FoundInsert(st, Head(resources), src), Tail(resources), src)
         ELSE AddLookedForKept(st, Tail(resources), src)

\* for res in ... { if looking_for.remove(&key) { assert!(found.insert(key, res)) } }
RECURSIVE AddLookedFor(_, _, _)
AddLookedFor(st, resources, src) ==
    IF resources = << >> \/ st.panicked
    THEN st
    ELSE IF Head(resources) \in st.looking_for
         THEN AddLookedFor(
                 FoundInsert([st EXCEPT !.looking_for = @ \ {Head(resources)}],
                             Head(resources), src),
                 Tail(resources), src)
         ELSE AddLookedFor(st, Tail(resources), src)

\* for pak_name in PICKUP_LOCATIONS { gc_disc.find_file(pak_name).unwrap() ... }
RECURSIVE ScanPaks(_, _, _)
ScanPaks(st, disc, pak_names) ==
    IF pak_names = << >> \/ st.panicked
    THEN st
    ELSE IF Head(pak_names) \notin DOMAIN disc.paks
         THEN [st EXCEPT !.panicked = TRUE]
         ELSE ScanPaks(AddLookedFor(st, disc.paks[Head(pak_names)], Head(pak_names)),
                       disc, Tail(pak_names))

\* create_custom_door_cmdl: indexes resources with the CMDL it copies
create_custom_door_cmdl(resources, dt) ==
    LET base == IF is_vertical(dt) THEN resource_info("18D0AEE6.CMDL")
                                   ELSE resource_info("blueShield_v1.CMDL")
    IN  [panicked |-> base \notin DOMAIN resources, key |-> <<shield_cmdl(dt), "CMDL">>]

\* for door_type in DoorType::iter() { if shield_cmdl() >= 0xDEAF0000 { new_assets.push(..) } }
RECURSIVE NewDoorAssets(_, _)
NewDoorAssets(resources, door_types) ==
    IF door_types = << >>
    THEN [panicked |-> FALSE, assets |-> << >>]
    ELSE IF GeU32(shield_cmdl(Head(door_types)), CUSTOM_ID_START)
         THEN LET made == create_custom_door_cmdl(resources, Head(door_types))
                  rest == NewDoorAssets(resources, Tail(door_types))
              IN  [panicked |-> made.panicked \/ rest.panicked,
                   assets |-> <<made.key>> \o rest.assets]
         ELSE NewDoorAssets(resources, Tail(door_types))

\* a mistaken collector end: reports what is still looked for and returns the pool
ReportLookingFor(st) == st

\* the final assert!(looking_for.is_empty())
AssertLookingForEmpty(st) ==
    IF st.looking_for # {} THEN [st EXCEPT !.panicked = TRUE] ELSE st

EmptyPool == [looking_for |-> {}, found |-> << >>, panicked |-> FALSE]

\* "Add the newly generated resources" and the final assert: st is the pool
\* after the paks, new the assets generated from it
AddNewAssets(st, new) ==
    IF st.panicked \/ new.panicked THEN [st EXCEPT !.panicked = TRUE]
    ELSE AssertLookingForEmpty(AddLookedFor(st, new.assets, "generated"))

\* "Generate custom assets (new door variants)", from the pool after the paks
GenerateDoorAssets(st) ==
    IF st.panicked THEN st ELSE AddNewAssets(st, NewDoorAssets(st.found, DoorTypeIter))

collect_door_resources(disc) ==
    GenerateDoorAssets(
        ScanPaks(AddExtraAssets([EmptyPool EXCEPT !.looking_for = DoorLookingFor],
                                extra_assets_doors),
                 disc, PakNames))

\* create_suit_icon_cmdl_and_ancs: indexes resources with the gravity suit's
\* CMDL and ANCS
create_suit_icon_cmdl_and_ancs(resources, new_cmdl_id, new_ancs_id) ==
    [panicked |-> \/ resource_info("Node1_11.CMDL") \notin DOMAIN resources
                  \/ resource_info("Node1_11.ANCS") \notin DOMAIN resources,
     assets |-> << <<new_cmdl_id, "CMDL">>, <<new_ancs_id, "ANCS">> >>]

create_item_scan_strg_pair(new_scan, new_strg) ==
    << <<new_scan, "SCAN">>, <<new_strg, "STRG">> >>

\* create_shiny_missile_assets: indexes resources with the missile's CMDL and ANCS
create_shiny_missile_assets(resources) ==
    [panicked |-> \/ resource_info("Node1_36_0.CMDL") \notin DOMAIN resources
                  \/ resource_info("Node1_37_0.ANCS") \notin DOMAIN resources,
     assets |-> << <<custom_asset_ids("SHINY_MISSILE_CMDL"), "CMDL">>,
                   <<custom_asset_ids("SHINY_MISSILE_ANCS"), "ANCS">> >>]

\* new_assets of collect_pickup_resources, in push order
NewPickupAssets(resources) ==
    LET nothing == create_suit_icon_cmdl_and_ancs(resources,
                       custom_asset_ids("NOTHING_CMDL"), custom_asset_ids("NOTHING_ANCS"))
        phazon == create_suit_icon_cmdl_and_ancs(resources,
                       custom_asset_ids("PHAZON_SUIT_CMDL"), custom_asset_ids("PHAZON_SUIT_ANCS"))
        shiny == create_shiny_missile_assets(resources)
    IN  [panicked |-> nothing.panicked \/ phazon.panicked \/ shiny.panicked,
         assets |->
            nothing.assets \o phazon.assets
            \o create_item_scan_strg_pair(custom_asset_ids("PHAZON_SUIT_SCAN"),
                                          custom_asset_ids("PHAZON_SUIT_STRG"))
            \o create_item_scan_strg_pair(custom_asset_ids("NOTHING_SCAN"),
                                          custom_asset_ids("NOTHING_SCAN_STRG"))
            \o << <<custom_asset_ids("NOTHING_ACQUIRED_HUDMEMO_STRG"), "STRG">> >>
            \o create_item_scan_strg_pair(custom_asset_ids("THERMAL_VISOR_SCAN"),
                                          custom_asset_ids("THERMAL_VISOR_STRG"))
            \o create_item_scan_strg_pair(custom_asset_ids("SCAN_VISOR_SCAN"),
                                          custom_asset_ids("SCAN_VISOR_SCAN_STRG"))
            \o << <<custom_asset_ids("SCAN_VISOR_ACQUIRED_HUDMEMO_STRG"), "STRG">> >>
            \o create_item_scan_strg_pair(custom_asset_ids("SHINY_MISSILE_SCAN"),
                                          custom_asset_ids("SHINY_MISSILE_SCAN_STRG"))
            \o shiny.assets
            \o << <<custom_asset_ids("SHINY_MISSILE_ACQUIRED_HUDMEMO_STRG"), "STRG">> >>]

\* "Generate and add the assets for Nothing and for Phazon Suit ...", from the
\* pool after the paks
GeneratePickupAssets(st) ==
    IF st.panicked THEN st ELSE AddNewAssets(st, NewPickupAssets(st.found))

collect_pickup_resources(disc) ==
    GeneratePickupAssets(
        ScanPaks(AddExtraAssets([EmptyPool EXCEPT !.looking_for = PickupLookingFor],
                                extra_assets),
                 disc, PakNames))

----------------------------------------------------------------------------
(* The input disc and pickup_meta::PICKUP_LOCATIONS the checks run on *)

\* Option<T>: None, or Some(x)
None == << >>

Some(x) == <<x>>

ScriptObjectLocation(layer, instance_id) == [layer |-> layer, instance_id |-> instance_id]

PickupLocation(location, attainment_audio, hudmemo, relay_connections) ==
    [location |-> location, attainment_audio |-> attainment_audio, hudmemo |-> hudmemo,
     post_pickup_relay_connections |-> relay_connections]

DoorLocation(door_location, door_force_location, door_shield_location, dock_number) ==
    [door_location |-> door_location, door_force_location |-> door_force_location,
     door_shield_location |-> door_shield_location, dock_number |-> dock_number]

RoomInfo(pak, room_id, name, mapa_id, pickup_locations, objects_to_remove, door_locations) ==
    [pak |-> pak, room_id |-> room_id, name |-> name, mapa_id |-> mapa_id,
     pickup_locations |-> pickup_locations, objects_to_remove |-> objects_to_remove,
     door_locations |-> door_locations]

\* the rooms of PICKUP_LOCATIONS, pak by pak in its order
PICKUP_LOCATIONS ==
    << RoomInfo("Metroid1.pak", Id(\h0D5C, \h0001), "Air Lock", Id(\h0A00, 1),
           << >>,
           << >>,
           << DoorLocation(ScriptObjectLocation(0, 10), ScriptObjectLocation(0, 11),
                           Some(ScriptObjectLocation(0, 12)), Some(0)) >>),
       RoomInfo("Metroid2.pak", Id(\h0D5C, \h0002), "Main Plaza", Id(\h0A00, 2),
           << PickupLocation(ScriptObjectLocation(0, 1), ScriptObjectLocation(0, 2),
                             ScriptObjectLocation(0, 3), << <<"ACTIVE", "DEACTIVATE", 4>> >>),
              PickupLocation(ScriptObjectLocation(1, 5), ScriptObjectLocation(1, 6),
                             ScriptObjectLocation(1, 7), << >>) >>,
           << [layer |-> 0, instance_ids |-> {4}] >>,
           << DoorLocation(ScriptObjectLocation(0, 10), ScriptObjectLocation(0, 11),
                           Some(ScriptObjectLocation(0, 12)), Some(0)),
              DoorLocation(ScriptObjectLocation(0, 13), ScriptObjectLocation(0, 14),
                           None, None) >>),
       RoomInfo("Metroid2.pak", Id(\h11BD, \h63B7), "Tower Chamber", Id(0, 0),
           << PickupLocation(ScriptObjectLocation(0, 1), ScriptObjectLocation(0, 2),
                             ScriptObjectLocation(0, 3), << >>) >>,
           << >>,
           << DoorLocation(ScriptObjectLocation(0, 10), ScriptObjectLocation(0, 11),
                           None, Some(0)) >>),
       RoomInfo("Metroid3.pak", Id(\h0D5C, \h0004), "Ice Ruins East", Id(\h0A00, 4),
           << PickupLocation(ScriptObjectLocation(0, 1), ScriptObjectLocation(0, 2),
                             ScriptObjectLocation(0, 3), << >>) >>,
           << [layer |-> 0, instance_ids |-> {4}] >>,
           << DoorLocation(ScriptObjectLocation(0, 10), ScriptObjectLocation(0, 11),
                           Some(ScriptObjectLocation(0, 12)), Some(1)) >>),
       RoomInfo("Metroid7.pak", Id(\h0D5C, \h0005), "Crater Entry Point", Id(\h0A00, 5),
           << >>,
           << >>,
           << DoorLocation(ScriptObjectLocation(0, 10), ScriptObjectLocation(0, 11),
                           Some(ScriptObjectLocation(0, 12)), Some(0)) >>) >>

Rooms == 1..Len(PICKUP_LOCATIONS)

\* World::from_pak(name) as usize
Level(pak) == IndexOf(PakNames, pak) - 1

\* one script object
SclyObject(instance_id, property_data) ==
    [instance_id |-> instance_id, property_data |-> property_data, connections |-> << >>]

Other == [kind |-> "Other"]

DamageableTrigger(dt) ==
    [kind |-> "DamageableTrigger", color_txtr |-> forcefield_txtr(dt),
     damage_vulnerability |-> vulnerability(dt)]

Actor(cmdl) == [kind |-> "Actor", cmdl |-> cmdl]

Pickup(pt) == [kind |-> "Pickup", pickup |-> pt]

\* the door type every door of a room has on the input disc
VanillaDoor(r) ==
    CASE r = 1 -> "Blue"
      [] r = 2 -> "Purple"
      [] r = 3 -> "VerticalWhite"
      [] r = 4 -> "White"
      [] r = 5 -> "Red"

\* the objects of the doors of room r: the door, its force field and its shield
RECURSIVE DoorObjects(_, _)
DoorObjects(r, locs) ==
    IF locs = << >> THEN << >>
    ELSE LET d == Head(locs)
         IN  << SclyObject(d.door_location.instance_id, Other),
                SclyObject(d.door_force_location.instance_id, DamageableTrigger(VanillaDoor(r))) >>
             \o (IF d.door_shield_location = None THEN << >>
                 ELSE << SclyObject(d.door_shield_location[1].instance_id,
                                    Actor(shield_cmdl(VanillaDoor(r)))) >>)
             \o DoorObjects(r, Tail(locs))

\* structs::HudMemo: the fields update_hudmemo reads or writes
HudMemo(first_message_timer, memo_type, strg) ==
    [kind |-> "HudMemo", first_message_timer |-> first_message_timer,
     memo_type |-> memo_type, strg |-> strg]

\* the objects of the pickup locations of a room that are in the given layer
RECURSIVE PickupObjects(_, _)
PickupObjects(locs, layer) ==
    IF locs = << >> THEN << >>
    ELSE LET l == Head(locs)
         IN  (IF l.location.layer = layer
              THEN << SclyObject(l.location.instance_id, Pickup("Missile")),
                      SclyObject(l.attainment_audio.instance_id, [kind |-> "Sound"]),
                      SclyObject(l.hudmemo.instance_id, HudMemo(3, 1, Id(0, 0))) >>
              ELSE << >>)
             \o PickupObjects(Tail(locs), layer)

RECURSIVE RemovableObjects(_, _)
RemovableObjects(otrs, layer) ==
    IF otrs = << >> THEN << >>
    ELSE (IF Head(otrs).layer = layer
          THEN LET ids == Head(otrs).instance_ids
               IN  [i \in 1..Cardinality(ids) |->
                       SclyObject(CHOOSE x \in ids : Cardinality({y \in ids : y < x}) = i - 1,
                                  Other)]
          ELSE << >>)
         \o RemovableObjects(Tail(otrs), layer)

\* the area of room r as it is on the input disc: two layers, no dependencies
\* recorded for the assets the tool adds
InputArea(r) ==
    LET room == PICKUP_LOCATIONS[r]
    IN  [layers |->
            << PickupObjects(room.pickup_locations, 0)
                   \o RemovableObjects(room.objects_to_remove, 0)
                   \o DoorObjects(r, room.door_locations),
               PickupObjects(room.pickup_locations, 1)
                   \o RemovableObjects(room.objects_to_remove, 1) >>,
         dependencies |-> << << >>, << >> >>]

InputAreas == [r \in Rooms |-> InputArea(r)]

\* every resource key a pak of the unmodified disc can serve, with repetitions
RECURSIVE DoorDependencyList(_)
DoorDependencyList(door_types) ==
    IF door_types = << >> THEN << >>
    ELSE dependencies(Head(door_types)) \o DoorDependencyList(Tail(door_types))

RECURSIVE PickupDependencyList(_)
PickupDependencyList(pickup_types) ==
    IF pickup_types = << >> THEN << >>
    ELSE pickup_dependencies(Head(pickup_types))
         \o << <<hudmemo_strg(Head(pickup_types)), "STRG">> >>
         \o PickupDependencyList(Tail(pickup_types))

\* the tool's own assets all have ids 0xDEAF00xx
IsCustomAsset(key) == key[1][1] = CUSTOM_ID_START[1]

VanillaResources ==
    SelectSeq(DoorDependencyList(DoorTypeIter) \o PickupDependencyList(PickupTypeIter),
              LAMBDA key : ~IsCustomAsset(key))

\* the paks of the unmodified disc: each holds its area, then every 7th
\* vanilla resource; every 5th resource is in a second pak as well
FullPaks ==
    [n \in 1..Len(PakNames) |->
        << <<Id(0, n), "MREA">> >>
        \o LET here == SelectSeq([j \in 1..Len(VanillaResources) |-> j],
                                 LAMBDA j : j % 7 = n - 1 \/ (j % 5 = 0 /\ (j + 3) % 7 = n - 1))
           IN  [i \in 1..Len(here) |-> VanillaResources[here[i]]]]

\* the paks of an input disc that lacks the resources in `missing`
InputPaks(missing) ==
    [pak \in SeqToSet(PakNames) |->
        SelectSeq(FullPaks[IndexOf(PakNames, pak)], LAMBDA key : key \notin missing)]

----------------------------------------------------------------------------
(* patches.rs: choosing the door types and registering the patches *)

\* StdRng::seed_from_u64 and Uniform::from(0..100).sample: a generator whose
\* state is the next sample, with a full period over 0..99
seed_from_u64(seed) == seed % 100

sample(rng) == [num |-> rng, rng |-> (rng * 21 + 17) % 100]

\* a sum of u8 values: with overflow checks the addition panics when it
\* leaves 0..255, without them it wraps
RECURSIVE SumSeq(_)
SumSeq(ws) == IF ws = << >> THEN 0 ELSE Head(ws) + SumSeq(Tail(ws))

AddU8(ws, overflow_checks) ==
    [panicked |-> overflow_checks /\ SumSeq(ws) > 255, value |-> SumSeq(ws) % 256]

\* a mistaken selection: the tables of Chozo Ruins and Phendrana Drifts swapped
RegionWeightsSwapped(pak_name, weights) ==
    CASE pak_name = "Metroid2.pak" -> weights.phendrana_drifts
      [] pak_name = "Metroid3.pak" -> weights.chozo_ruins
      [] pak_name = "Metroid4.pak" -> weights.tallon_overworld
      [] pak_name = "metroid5.pak" -> weights.phazon_mines
      [] pak_name = "Metroid6.pak" -> weights.magmoor_caverns
      [] pak_name = "Metroid7.pak" -> <<0, 0, 0, 100>>
      [] OTHER                     -> <<100, 0, 0, 0>>

\* the weights calculate_door_type selects for a pak
RegionWeights(pak_name, weights) ==
    CASE pak_name = "Metroid2.pak" -> weights.chozo_ruins
      [] pak_name = "Metroid3.pak" -> weights.phendrana_drifts
      [] pak_name = "Metroid4.pak" -> weights.tallon_overworld
      [] pak_name = "metroid5.pak" -> weights.phazon_mines
      [] pak_name = "Metroid6.pak" -> weights.magmoor_caverns
      [] pak_name = "Metroid7.pak" -> <<0, 0, 0, 100>>
      [] OTHER                     -> <<100, 0, 0, 0>>

\* a mistaken choice: the draw is compared with <= where the code has <
calculate_door_type_inclusive(pak_name, rng, door_weights, overflow_checks) ==
    LET weights == RegionWeights(pak_name, door_weights)
        total == AddU8(<<weights[1], weights[2], weights[3], weights[4]>>, overflow_checks)
        drawn == sample(rng)
        num == drawn.num
        Return(dt) == [panicked |-> FALSE, door_type |-> dt, rng |-> drawn.rng]
    IN  IF total.panicked \/ total.value # 100
        THEN [panicked |-> TRUE, door_type |-> "Blue", rng |-> rng]
        ELSE IF num <= weights[1] THEN Return("Blue")
        ELSE IF num <= weights[1] + weights[2] THEN Return("Purple")
        ELSE IF num <= weights[1] + weights[2] + weights[3] THEN Return("White")
        ELSE Return("Red")

calculate_door_type(pak_name, rng, door_weights, overflow_checks) ==
    LET weights == RegionWeights(pak_name, door_weights)
        total == AddU8(<<weights[1], weights[2], weights[3], weights[4]>>, overflow_checks)
        drawn == sample(rng)
        num == drawn.num
        upto2 == AddU8(<<weights[2], weights[1]>>, overflow_checks)
        upto3 == AddU8(<<weights[3], weights[2], weights[1]>>, overflow_checks)
        upto4 == AddU8(<<weights[4], weights[3], weights[2], weights[1]>>, overflow_checks)
        Panic == [panicked |-> TRUE, door_type |-> "Blue", rng |-> rng]
        Return(dt) == [panicked |-> FALSE, door_type |-> dt, rng |-> drawn.rng]
    IN  IF total.panicked \/ total.value # 100 THEN Panic
        ELSE IF num < weights[1] THEN Return("Blue")
        ELSE IF upto2.panicked THEN Panic
        ELSE IF num < upto2.value THEN Return("Purple")
        ELSE IF upto3.panicked THEN Panic
        ELSE IF num < upto3.value THEN Return("White")
        ELSE IF upto4.panicked THEN Panic
        ELSE IF num < upto4.value THEN Return("Red")
        ELSE Panic

\* is_vertical_door of build_and_run_patches
is_vertical_door(room_id, door_index) ==
    \/ (room_id = Id(\h11BD, \h63B7) /\ door_index = 0)
    \/ (room_id = Id(\h0D72, \hF1F7) /\ door_index = 1)
    \/ (room_id = Id(\hFB54, \hA0CB) /\ door_index = 4)
    \/ (room_id = Id(\hE198, \h1EFC) /\ door_index = 0)
    \/ (room_id = Id(\h43E4, \hCC25) /\ door_index = 1)
    \/ (room_id = Id(\h37BB, \hB33C) /\ door_index = 1)
    \/ (room_id = Id(\hD8E9, \h05DD) /\ door_index = 1)
    \/ (room_id = Id(\h21B4, \hBFF6) /\ door_index = 1)
    \/ (room_id = Id(\h3F37, \h5ECC) /\ door_index = 2)
    \/ (room_id = Id(\hF517, \hA1EA) /\ door_index = 1)
    \/ (room_id = Id(\h8A97, \hBB54) /\ door_index = 1)
    \/ (room_id = Id(\hA202, \h01D4))
    \/ (room_id = Id(\h956F, \h1552) /\ door_index = 1)
    \/ (room_id = Id(\hC50A, \hF17A) /\ door_index = 2)
    \/ (room_id = Id(\h9070, \h9AAC) /\ door_index = 1)

\* the names the if-chain of build_and_run_patches compares door_specification with
SpecifiedDoorType(door_specification) ==
    CASE door_specification = "blue"         -> Some("Blue")
      [] door_specification = "purple"       -> Some("Purple")
      [] door_specification = "white"        -> Some("White")
      [] door_specification = "red"          -> Some("Red")
      [] door_specification = "power_bomb"   -> Some("PowerBomb")
      [] door_specification = "bomb"         -> Some("Bomb")
      [] door_specification = "missile"      -> Some("Missile")
      [] door_specification = "charge"       -> Some("Charge")
      [] door_specification = "super"        -> Some("Super")
      [] door_specification = "wavebuster"   -> Some("Wavebuster")
      [] door_specification = "icespreader"  -> Some("Icespreader")
      [] door_specification = "flamethrower" -> Some("Flamethrower")
      [] door_specification = "disabled"     -> Some("Disabled")
      [] door_specification = "ai"           -> Some("Ai")
      [] OTHER                               -> None

\* the vertical variant the if-chain assigns for each name
\* a mistaken choice: a vertical door is given the type of a door in a wall
SpecifiedVerticalDoorTypeUpright(door_specification) == SpecifiedDoorType(door_specification)

SpecifiedVerticalDoorType(door_specification) ==
    CASE door_specification = "blue"         -> Some("VerticalBlue")
      [] door_specification = "purple"       -> Some("VerticalPurple")
      [] door_specification = "white"        -> Some("VerticalWhite")
      [] door_specification = "red"          -> Some("VerticalRed")
      [] door_specification = "power_bomb"   -> Some("VerticalPowerBomb")
      [] door_specification = "bomb"         -> Some("VerticalBomb")
      [] door_specification = "missile"      -> Some("VerticalMissile")
      [] door_specification = "charge"       -> Some("VerticalCharge")
      [] door_specification = "super"        -> Some("VerticalSuper")
      [] door_specification = "wavebuster"   -> Some("VerticalWavebuster")
      [] door_specification = "icespreader"  -> Some("VerticalIcespreader")
      [] door_specification = "flamethrower" -> Some("VerticalFlamethrower")
      [] door_specification = "disabled"     -> Some("VerticalDisabled")
      [] door_specification = "ai"           -> Some("VerticalAi")
      [] OTHER                               -> None

Target(file, res) == [file |-> file, res |-> res]

\* PrimePatcher::add_file_patch / add_scly_patch / add_resource_patch
FilePatch(name, callback) ==
    [target |-> Target(name, None), callback |-> callback]

SclyPatch(pak, room_id, callback, room, args) ==
    [target |-> Target(pak, <<room_id, "MREA">>), callback |-> callback, room |-> room,
     args |-> args]

ResourcePatch(pak, res_id, fourcc, callback, room, args) ==
    [target |-> Target(pak, <<res_id, fourcc>>), callback |-> callback, room |-> room,
     args |-> args]

\* a mistaken loop body: door_rng is drawn from only for a door location whose
\* specification names no door type
RegisterDoorDrawnWhenNeeded(acc, r, door_location, cfg, overflow_checks) ==
    LET room_info == PICKUP_LOCATIONS[r]
        level == Level(room_info.pak)
        door_index == door_location.dock_number[1]
        by_room == cfg.excluded_doors[level]
        has_specification ==
            /\ room_info.name \in DOMAIN by_room
            /\ door_index + 1 \in DOMAIN by_room[room_info.name]
        door_specification == by_room[room_info.name][door_index + 1]
        vertical == is_vertical_door(room_info.room_id, door_index)
        drawn == calculate_door_type(room_info.pak, acc.door_rng, cfg.door_weights,
                                     overflow_checks)
        named == IF vertical THEN SpecifiedVerticalDoorType(door_specification)
                             ELSE SpecifiedDoorType(door_specification)
        door_type == IF vertical /\ cfg.patch_vertical_to_blue THEN "VerticalBlue"
                     ELSE IF named # None THEN named[1] ELSE drawn.door_type
        args == [door_location |-> door_location, door_type |-> door_type,
                 lockpick |-> cfg.powerbomb_lockpick]
        after == IF named # None THEN acc ELSE [acc EXCEPT !.door_rng = drawn.rng]
    IN  IF acc.panicked \/ door_location.dock_number = None THEN acc
        ELSE IF ~has_specification \/ (named = None /\ drawn.panicked)
        THEN [acc EXCEPT !.panicked = TRUE]
        ELSE IF door_specification # "default" \/ (vertical /\ cfg.patch_vertical_to_blue)
        THEN [after EXCEPT
                !.patches = @ \o << SclyPatch(room_info.pak, room_info.room_id,
                                              "patch_door", r, args) >>]
        ELSE after

\* the body of "for &door_location in iter" for one door location: acc carries
\* the patches registered so far, door_rng and whether a panic has happened
RegisterDoor(acc, r, door_location, cfg, overflow_checks) ==
    LET room_info == PICKUP_LOCATIONS[r]
        level == Level(room_info.pak)
        door_index == door_location.dock_number[1]
        by_room == cfg.excluded_doors[level]
        has_specification ==
            /\ room_info.name \in DOMAIN by_room
            /\ door_index + 1 \in DOMAIN by_room[room_info.name]
        door_specification == by_room[room_info.name][door_index + 1]
        vertical == is_vertical_door(room_info.room_id, door_index)
        drawn == calculate_door_type(room_info.pak, acc.door_rng, cfg.door_weights,
                                     overflow_checks)
        named == IF vertical THEN SpecifiedVerticalDoorType(door_specification)
                             ELSE SpecifiedDoorType(door_specification)
        chosen == IF named # None THEN named[1] ELSE drawn.door_type
        door_type == IF vertical /\ cfg.patch_vertical_to_blue THEN "VerticalBlue" ELSE chosen
        args == [door_location |-> door_location, door_type |-> door_type,
                 lockpick |-> cfg.powerbomb_lockpick]
    IN  IF acc.panicked \/ door_location.dock_number = None THEN acc
        ELSE IF ~has_specification \/ drawn.panicked THEN [acc EXCEPT !.panicked = TRUE]
        ELSE IF door_specification # "default" \/ (vertical /\ cfg.patch_vertical_to_blue)
        THEN [acc EXCEPT
                !.door_rng = drawn.rng,
                !.patches = @ \o << SclyPatch(room_info.pak, room_info.room_id,
                                              "patch_door", r, args) >>
                              \o (IF cfg.patch_map /\ room_info.mapa_id # Id(0, 0)
                                  THEN << ResourcePatch(room_info.pak, room_info.mapa_id,
                                                        "MAPA", "patch_map_door_icon", r, args) >>
                                  ELSE << >>)]
        ELSE [acc EXCEPT !.door_rng = drawn.rng]

RECURSIVE RegisterDoors(_, _, _, _, _)
RegisterDoors(acc, r, door_locations, cfg, overflow_checks) ==
    IF door_locations = << >> THEN acc
    ELSE RegisterDoors(RegisterDoor(acc, r, Head(door_locations), cfg, overflow_checks),
                       r, Tail(door_locations), cfg, overflow_checks)

\* a mistaken order: the pickup patches of the room before its removal patch
RegisterPickupsFirst(acc, r, cfg) ==
    LET room_info == PICKUP_LOCATIONS[r]
        left == Len(cfg.pickup_layout) - acc.layout_iterator
        n == IF Len(room_info.pickup_locations) < left
             THEN Len(room_info.pickup_locations) ELSE left
    IN  IF cfg.is_item_randomized = Some(TRUE) THEN acc
        ELSE [acc EXCEPT
                !.layout_iterator = @ + n,
                !.patches = @ \o [k \in 1..n |->
                                    SclyPatch(room_info.pak, room_info.room_id,
                                        "modify_pickups_in_mrea", r,
                                        [k |-> k,
                                         pickup_type |->
                                            from_idx(cfg.pickup_layout[acc.layout_iterator + k]),
                                         pickup_location |-> room_info.pickup_locations[k]])]
                              \o << SclyPatch(room_info.pak, room_info.room_id,
                                              "remove_objects", r, [k |-> 0]) >>]

\* "patch the item locations": the object-removal patch of the room, then one
\* pickup patch per pickup location zipped with layout_iterator
RegisterPickups(acc, r, cfg) ==
    LET room_info == PICKUP_LOCATIONS[r]
        left == Len(cfg.pickup_layout) - acc.layout_iterator
        n == IF Len(room_info.pickup_locations) < left
             THEN Len(room_info.pickup_locations) ELSE left
    IN  IF cfg.is_item_randomized = Some(TRUE) THEN acc
        ELSE [acc EXCEPT
                !.layout_iterator = @ + n,
                !.patches = @ \o << SclyPatch(room_info.pak, room_info.room_id,
                                              "remove_objects", r, [k |-> 0]) >>
                              \o [k \in 1..n |->
                                    SclyPatch(room_info.pak, room_info.room_id,
                                        "modify_pickups_in_mrea", r,
                                        [k |-> k,
                                         pickup_type |->
                                            from_idx(cfg.pickup_layout[acc.layout_iterator + k]),
                                         pickup_location |-> room_info.pickup_locations[k]])]]

\* the body of "for room_info in rooms.iter()" for room r, after the two
\* `continue`s on a skipped pak
RegisterRoomPatches(acc, r, cfg, overflow_checks) ==
    LET level == Level(PICKUP_LOCATIONS[r].pak)
    IN  IF (level = 0 /\ cfg.skip_frigate) \/ (level = 6 /\ cfg.skip_impact_crater)
        THEN acc
        ELSE RegisterDoors(RegisterPickups(acc, r, cfg), r,
                           PICKUP_LOCATIONS[r].door_locations, cfg, overflow_checks)

----------------------------------------------------------------------------
(* patches.rs: the patch callbacks *)

\* position of the first object of a layer with the instance id, 0 if none
FindObject(objects, instance_id) ==
    IF \E i \in 1..Len(objects) : objects[i].instance_id = instance_id
    THEN CHOOSE i \in 1..Len(objects) :
            /\ objects[i].instance_id = instance_id
            /\ \A j \in 1..(i - 1) : objects[j].instance_id # instance_id
    ELSE 0

\* a mistaken add_layer: two layers are added
add_layer_twice(area) ==
    [area EXCEPT !.layers = @ \o << << >>, << >> >>,
                 !.dependencies = @ \o << << >>, << >> >>]

\* MlvlArea::add_layer
add_layer(area) ==
    [area EXCEPT !.layers = @ \o << << >> >>, !.dependencies = @ \o << << >> >>]

\* MlvlArea::add_dependencies: every dependency the layer does not list yet is
\* taken from the pool and listed
RECURSIVE add_dependencies(_, _, _, _)
add_dependencies(area, pool, layer_num, deps) ==
    IF deps = << >> THEN [panicked |-> FALSE, area |-> area]
    ELSE IF Head(deps) \in SeqToSet(area.dependencies[layer_num + 1])
         THEN add_dependencies(area, pool, layer_num, Tail(deps))
         ELSE IF Head(deps) \notin DOMAIN pool
              THEN [panicked |-> TRUE, area |-> area]
              ELSE add_dependencies(
                      [area EXCEPT !.dependencies[layer_num + 1] = Append(@, Head(deps))],
                      pool, layer_num, Tail(deps))

Ok(area, ps, ids) == [status |-> "Ok", area |-> area, ps |-> ps, ids |-> ids]

Panicked(area, ps) == [status |-> "panic", area |-> area, ps |-> ps, ids |-> << >>]

\* ps.fresh_instance_id_range.next().unwrap()
NextFreshStuck(range) == [value |-> range, rest |-> range]

NextFresh(range) == [value |-> range, rest |-> range + 1]

\* the closure of the object-removal patch
RECURSIVE remove_objects(_, _)
remove_objects(area, objects_to_remove) ==
    IF objects_to_remove = << >> THEN [panicked |-> FALSE, area |-> area]
    ELSE LET otr == Head(objects_to_remove)
         IN  IF otr.layer + 1 \notin DOMAIN area.layers
             THEN [panicked |-> TRUE, area |-> area]
             ELSE remove_objects(
                     [area EXCEPT !.layers[otr.layer + 1] =
                         SelectSeq(@, LAMBDA i : i.instance_id \notin otr.instance_ids)],
                     Tail(objects_to_remove))

\* a mistaken lockpick: applied whatever the option says
patch_door_lockpick_always(vulnerable, lockpick) == [vulnerable EXCEPT !.power_bomb = 1]

\* if lockpick { door_force.damage_vulnerability.power_bomb = 0x1 }
patch_door_lockpick(vulnerable, lockpick) ==
    IF lockpick THEN [vulnerable EXCEPT !.power_bomb = 1] ELSE vulnerable

patch_door(area, door_loc, dt, pool, lockpick) ==
    LET with_deps == add_dependencies(area, pool, 0, dependencies(dt))
        layer == with_deps.area.layers[1]
        force == FindObject(layer, door_loc.door_force_location.instance_id)
        force_ok == force # 0 /\ layer[force].property_data.kind = "DamageableTrigger"
        door_force ==
            [kind |-> "DamageableTrigger",
             color_txtr |-> forcefield_txtr(dt),
             damage_vulnerability |-> patch_door_lockpick(vulnerability(dt), lockpick)]
        has_shield == door_loc.door_shield_location # None
        shield == IF has_shield
                  THEN FindObject(layer, door_loc.door_shield_location[1].instance_id)
                  ELSE 0
        shield_ok == shield # 0 /\ layer[shield].property_data.kind = "Actor"
        forced == [with_deps.area EXCEPT !.layers[1][force].property_data = door_force]
    IN  IF with_deps.panicked \/ ~force_ok THEN Panicked(area, 0)
        ELSE IF ~has_shield THEN Ok(forced, 0, << >>)
        ELSE IF ~shield_ok THEN Panicked(area, 0)
        ELSE Ok([forced EXCEPT !.layers[1][shield].property_data = Actor(shield_cmdl(dt))],
                0, << >>)

\* PickupType::skip_hudmemos_strg
skip_hudmemos_strg(self) ==
    Id(SKIP_HUDMEMO_STRG_START[1], SKIP_HUDMEMO_STRG_START[2] + idx(self))

ARTIFACT_OF_TRUTH_REQ_LAYER == 24

ALWAYS_MODAL_HUDMENUS == {23, 50, 63}

\* an update_hudmemo that makes every hudmemo of a run that skips them modal
update_hudmemo_modal(hudmemo, pickup_type, location_idx, skip_hudmenus) ==
    [hudmemo EXCEPT !.strg = hudmemo_strg(pickup_type)]

update_hudmemo(hudmemo, pickup_type, location_idx, skip_hudmenus) ==
    IF skip_hudmenus /\ location_idx \notin ALWAYS_MODAL_HUDMENUS
    THEN [hudmemo EXCEPT !.first_message_timer = 5,
                         !.memo_type = 0,
                         !.strg = skip_hudmemos_strg(pickup_type)]
    ELSE [hudmemo EXCEPT !.strg = hudmemo_strg(pickup_type)]

\* a template that counts the layers from the first artifact kind
artifact_layer_change_template_from_zero(instance_id, pickup_kind_) ==
    [panicked |-> FALSE,
     object |-> [instance_id |-> instance_id,
                 property_data |-> [kind |-> "SpecialFunction", type_ |-> 16,
                                    layer_change_room_id |-> Id(\hCD2B, \h0EA2),
                                    layer_change_layer_id |-> pickup_kind_ - 29],
                 connections |-> << >>]]

\* artifact_layer_change_template: the assertion fails for a kind below 29
artifact_layer_change_template(instance_id, pickup_kind_) ==
    LET layer == IF pickup_kind_ > 29 THEN pickup_kind_ - 28
                 ELSE ARTIFACT_OF_TRUTH_REQ_LAYER
    IN  [panicked |-> ~(pickup_kind_ > 29) /\ pickup_kind_ # 29,
         object |-> [instance_id |-> instance_id,
                     property_data |-> [kind |-> "SpecialFunction", type_ |-> 16,
                                        layer_change_room_id |-> Id(\hCD2B, \h0EA2),
                                        layer_change_layer_id |-> layer],
                     connections |-> << >>]]

modify_pickups_in_mrea(ps, area, pickup_type, pickup_location, pool, cfg) ==
    LET location_idx == 0
        layered == add_layer(area)
        new_layer_idx == Len(layered.layers) - 1
        hudmemo_dep ==
            IF cfg.skip_hudmenus /\ location_idx \notin ALWAYS_MODAL_HUDMENUS
            THEN <<skip_hudmemos_strg(pickup_type), "STRG">>
            ELSE <<hudmemo_strg(pickup_type), "STRG">>
        with_deps == add_dependencies(layered, pool, new_layer_idx,
                                      pickup_dependencies(pickup_type) \o <<hudmemo_dep>>)
        first == NextFresh(ps)
        relay == [instance_id |-> first.value, property_data |-> [kind |-> "Relay"],
                  connections |-> pickup_location.post_pickup_relay_connections]
        pickup_kind_ == pickup_kind(pickup_type)
        artifact == pickup_kind_ >= 29 /\ pickup_kind_ <= 40
        second == IF artifact THEN NextFresh(first.rest) ELSE first
        made == artifact_layer_change_template(second.value, pickup_kind_)
        function == made.object
        additional_connections ==
            << <<"ARRIVED", "SET_TO_ZERO", first.value>> >>
            \o (IF artifact THEN << <<"ARRIVED", "INCREMENT", second.value>> >> ELSE << >>)
        pushed == [with_deps.area EXCEPT !.layers[new_layer_idx + 1] =
                      @ \o <<relay>> \o (IF artifact THEN <<function>> ELSE << >>)]
        Find(loc) == IF loc.layer + 1 \in DOMAIN pushed.layers
                     THEN FindObject(pushed.layers[loc.layer + 1], loc.instance_id)
                     ELSE 0
        pickup == Find(pickup_location.location)
        hudmemo == Find(pickup_location.hudmemo)
        attainment_audio == Find(pickup_location.attainment_audio)
        pl == pickup_location.location.layer + 1
        hl == pickup_location.hudmemo.layer + 1
        al == pickup_location.attainment_audio.layer + 1
    IN  IF with_deps.panicked THEN Panicked(area, ps)
        ELSE IF artifact /\ made.panicked THEN Panicked(area, ps)
        ELSE IF pickup = 0 \/ pushed.layers[pl][pickup].property_data.kind # "Pickup"
        THEN Panicked(area, ps)
        ELSE IF hudmemo = 0 \/ pushed.layers[hl][hudmemo].property_data.kind # "HudMemo"
        THEN Panicked(area, ps)
        ELSE IF attainment_audio = 0 THEN Panicked(area, ps)
        ELSE Ok([pushed EXCEPT
                    !.layers[pl][pickup].property_data = Pickup(pickup_type),
                    !.layers[pl][pickup].connections = @ \o additional_connections,
                    !.layers[hl][hudmemo].property_data =
                        update_hudmemo(@, pickup_type, location_idx, cfg.skip_hudmenus),
                    !.layers[al][attainment_audio].property_data =
                        [kind |-> "Sound", pickup |-> pickup_type]],
                second.rest,
                <<first.value>> \o (IF artifact THEN <<second.value>> ELSE << >>))

\* write_encoded_str of patch_bnr: Err when the encoded text does not fit
write_encoded_str(text_len, slice_len) ==
    IF text_len # None /\ text_len[1] >= slice_len - 1 THEN "Err" ELSE "Ok"

patch_bnr(cfg) == write_encoded_str(cfg.bnr_game_name, 32)

----------------------------------------------------------------------------
(* PrimePatcher::run and PatcherState *)

RECURSIVE MaxOf(_)
MaxOf(ids) ==
    IF ids = {} THEN 0
    ELSE LET x == CHOOSE y \in ids : TRUE
             m == MaxOf(ids \ {x})
         IN  IF x > m THEN x ELSE m

\* every instance id of every layer of every area
InstanceIds(as) ==
    UNION { UNION { { as[r].layers[l][i].instance_id : i \in DOMAIN as[r].layers[l] } :
                    l \in DOMAIN as[r].layers } :
            r \in DOMAIN as }

\* the allocator starts just above the largest instance id of the disc
FreshStartAtMax(as) == MaxOf(InstanceIds(as))

FreshStart(as) == MaxOf(InstanceIds(as)) + 1

\* the targets of the disc in the order run walks them: the files, then the
\* area and the map of every room
WalkTargets ==
    << Target("opening.bnr", None), Target("default.dol", None) >>
    \o [i \in 1..Len(PakNames) |-> Target(PakNames[i], None)]
    \o [i \in 1..(2 * Len(PICKUP_LOCATIONS)) |->
          LET room_info == PICKUP_LOCATIONS[(i + 1) \div 2]
          IN  IF i % 2 = 1 THEN Target(room_info.pak, <<room_info.room_id, "MREA">>)
                           ELSE Target(room_info.pak, <<room_info.mapa_id, "MAPA">>)]

\* the callbacks in the order run invokes them: target by target, the
\* callbacks of one target in registration order
RECURSIVE RunOrderFrom(_, _)
RunOrderFrom(patches, targets) ==
    IF targets = << >> THEN << >>
    ELSE SelectSeq([i \in 1..Len(patches) |-> i],
                   LAMBDA i : patches[i].target = Head(targets))
         \o RunOrderFrom(patches, Tail(targets))

\* a mistaken walk: the callbacks of one target latest first
RECURSIVE Reverse(_)
Reverse(seq) == IF seq = << >> THEN << >> ELSE Reverse(Tail(seq)) \o << Head(seq) >>

RunOrderLatestFirst(patches) == Reverse(RunOrderFrom(patches, Reverse(WalkTargets)))

RunOrder(patches) == RunOrderFrom(patches, WalkTargets)

\* one registered callback applied to the disc
Invoke(patch, as, ps, cfg, door_pool, pickup_pool, dol_fails) ==
    CASE patch.callback = "remove_objects" ->
           LET done == remove_objects(as[patch.room],
                                      PICKUP_LOCATIONS[patch.room].objects_to_remove)
           IN  IF done.panicked THEN Panicked(as[patch.room], ps)
               ELSE Ok(done.area, ps, << >>)
      [] patch.callback = "modify_pickups_in_mrea" ->
           modify_pickups_in_mrea(ps, as[patch.room], patch.args.pickup_type,
                                  patch.args.pickup_location, pickup_pool, cfg)
      [] patch.callback = "patch_door" ->
           LET done == patch_door(as[patch.room], patch.args.door_location,
                                  patch.args.door_type, door_pool, patch.args.lockpick)
           IN  [done EXCEPT !.ps = ps]
      [] patch.callback = "patch_map_door_icon" -> Ok(as[patch.room], ps, << >>)
      [] patch.callback = "patch_bnr" ->
           [status |-> patch_bnr(cfg), area |-> None, ps |-> ps, ids |-> << >>]
      [] patch.callback = "patch_dol" ->
           [status |-> IF dol_fails THEN "Err" ELSE "Ok", area |-> None, ps |-> ps,
            ids |-> << >>]
      [] OTHER -> [status |-> "Ok", area |-> None, ps |-> ps, ids |-> << >>]

----------------------------------------------------------------------------
(* patch_iso, step by step *)

Finish(res, msg) ==
    /\ pc' = "done"
    /\ result' = res
    /\ err_msg' = msg

\* a mistaken match: the disc number of the header is not looked at
VersionOfAnyDisc(header) ==
    LET key == <<header.game_identifier, header.version>>
    IN  CASE key = <<"GM8E01", 0>> -> "Ntsc0_00"
          [] key = <<"GM8E01", 1>> -> "Ntsc0_01"
          [] key = <<"GM8E01", 2>> -> "Ntsc0_02"
          [] key = <<"GM8P01", 0>> -> "Pal"
          [] OTHER -> "Err"

\* match (game_identifier, disc_id, version) of patch_iso
VersionOf(header) ==
    LET key == <<header.game_identifier, header.disc_id, header.version>>
    IN  CASE key = <<"GM8E01", 0, 0>> -> "Ntsc0_00"
          [] key = <<"GM8E01", 0, 1>> -> "Ntsc0_01"
          [] key = <<"GM8E01", 0, 2>> -> "Ntsc0_02"
          [] key = <<"GM8P01", 0, 0>> -> "Pal"
          [] OTHER -> "Err"

\* patch_iso up to the call of build_and_run_patches: the header, the marker
\* files and the version are checked
Validate ==
    /\ pc = "patch_iso"
    /\ LET version == VersionOf(gc_disc.header)
       IN  IF version = "Err"
           THEN /\ Finish("Err", "The input ISO doesn't appear to be NTSC-US or PAL Metroid Prime.")
                /\ UNCHANGED config
           ELSE /\ config' = [config EXCEPT
                                !.is_item_randomized = Some("randomprime.txt" \in gc_disc.files),
                                !.version = version]
                /\ IF "mpdr.txt" \in gc_disc.files
                   THEN Finish("Err", "The input ISO has already been randomized using MPDR.")
                   ELSE IF version = "Ntsc0_01" \/ (version = "Pal" /\ ~config.pal_override)
                   THEN Finish("Err", "The NTSC 0-01 and PAL versions of Metroid Prime are not current supported.")
                   ELSE /\ pc' = "build_and_run_patches"
                        /\ UNCHANGED <<result, err_msg>>
    /\ UNCHANGED <<cat_vars, gc_disc, areas, output_iso, door_resources, pickup_resources,
                   patcher, room_idx, layout_iterator, door_rng, run_order, run_pos,
                   fresh_instance_id_range, applied, allocated>>

\* add_skip_hudmemos_strgs
RECURSIVE add_skip_hudmemos_strgs(_, _)
add_skip_hudmemos_strgs(st, pickup_types) ==
    IF pickup_types = << >> \/ st.panicked THEN st
    ELSE add_skip_hudmemos_strgs(
            FoundInsert(st, <<skip_hudmemos_strg(Head(pickup_types)), "STRG">>, "generated"),
            Tail(pickup_types))

\* build_and_run_patches from its start to PrimePatcher::new and the file
\* patches registered right after it
CollectResources ==
    /\ pc = "build_and_run_patches"
    /\ \E pickups \in { collect_pickup_resources(gc_disc) },
          doors \in { collect_door_resources(gc_disc) } :
       \E skipping \in { IF config.skip_hudmenus /\ ~pickups.panicked /\ ~doors.panicked
                         THEN add_skip_hudmemos_strgs(pickups, PickupTypeIter)
                         ELSE pickups } :
           IF \/ \E i \in DOMAIN config.pickup_layout :
                    from_idx(config.pickup_layout[i]) = NoPickupType
              \/ pickups.panicked
              \/ doors.panicked
              \/ skipping.panicked
           THEN /\ Finish("panic", "")
                /\ UNCHANGED <<door_resources, pickup_resources, patcher, door_rng>>
           ELSE /\ pickup_resources' = skipping.found
                /\ door_resources' = doors.found
                /\ patcher' = IF config.is_item_randomized # Some(TRUE) /\ ~config.keep_fmvs
                              THEN << FilePatch("opening.bnr", "patch_bnr") >>
                              ELSE << >>
                /\ door_rng' = seed_from_u64(config.seed)
                /\ pc' = "register"
                /\ UNCHANGED <<result, err_msg>>
    /\ UNCHANGED <<cat_vars, config, gc_disc, areas, output_iso, room_idx, layout_iterator,
                   run_order, run_pos, fresh_instance_id_range, applied, allocated>>

\* one iteration of "for room_info in rooms.iter()"
RegisterRoom ==
    /\ pc = "register"
    /\ room_idx < Len(PICKUP_LOCATIONS)
    /\ \E overflow_checks \in BOOLEAN :
         \E done \in { RegisterRoomPatches(
                          [patches |-> patcher, door_rng |-> door_rng,
                           layout_iterator |-> layout_iterator, panicked |-> FALSE],
                          room_idx + 1, config, overflow_checks) } :
             IF done.panicked
             THEN /\ Finish("panic", "")
                  /\ UNCHANGED <<patcher, door_rng, layout_iterator, room_idx>>
             ELSE /\ patcher' = done.patches
                  /\ door_rng' = done.door_rng
                  /\ layout_iterator' = done.layout_iterator
                  /\ room_idx' = room_idx + 1
                  /\ UNCHANGED <<pc, result, err_msg>>
    /\ UNCHANGED <<cat_vars, config, gc_disc, areas, output_iso, door_resources,
                   pickup_resources, run_order, run_pos, fresh_instance_id_range, applied, allocated>>

\* GcDisc::add_file
add_file(disc, name) ==
    [disc EXCEPT !.files = @ \cup {name}, !.added = Append(@, name)]

\* build_and_run_patches after the room loop, up to the call of patcher.run
RegisterRest ==
    /\ pc = "register"
    /\ room_idx = Len(PICKUP_LOCATIONS)
    /\ IF config.is_item_randomized # Some(TRUE)
       THEN /\ patcher' = patcher \o << FilePatch("default.dol", "patch_dol") >>
                          \o (IF config.skip_frigate
                              THEN << FilePatch("Metroid1.pak", "empty_frigate_pak") >>
                              ELSE << >>)
            /\ gc_disc' = add_file(gc_disc, "rel_config.bin")
       ELSE UNCHANGED <<patcher, gc_disc>>
    /\ run_order' = RunOrder(patcher')
    /\ fresh_instance_id_range' = FreshStart(areas)
    /\ pc' = "run"
    /\ UNCHANGED <<cat_vars, config, areas, output_iso, result, err_msg, door_resources,
                   pickup_resources, room_idx, layout_iterator, door_rng, run_pos,
                   applied, allocated>>

\* a mistaken propagation: only a panic stops the run, an Err is dropped
RunFailedOnPanic(status) == status = "panic"

\* the `?` on the result of a callback, of patcher.run and of build_and_run_patches
RunFailed(status) == status # "Ok"

\* PrimePatcher::run invokes its next callback
RunCallback ==
    /\ pc = "run"
    /\ run_pos < Len(run_order)
    /\ \E dol_fails \in BOOLEAN, i \in { run_order[run_pos + 1] } :
         \E patch \in { patcher[i] } :
         \E done \in { Invoke(patch, areas, fresh_instance_id_range, config,
                              door_resources, pickup_resources, dol_fails) } :
             /\ applied' = Append(applied, i)
             /\ run_pos' = run_pos + 1
             /\ IF ~RunFailed(done.status)
                THEN /\ areas' = IF "room" \in DOMAIN patch
                                 THEN [areas EXCEPT ![patch.room] = done.area]
                                 ELSE areas
                     /\ fresh_instance_id_range' = done.ps
                     /\ allocated' = allocated \o done.ids
                     /\ UNCHANGED <<pc, result, err_msg>>
                ELSE /\ Finish(done.status, patch.callback)
                     /\ UNCHANGED <<areas, fresh_instance_id_range, allocated>>
    /\ UNCHANGED <<cat_vars, config, gc_disc, output_iso, door_resources, pickup_resources,
                   patcher, room_idx, layout_iterator, door_rng, run_order>>

\* patcher.run has returned Ok: patch_iso adds its marker files
AddMarkers ==
    /\ pc = "run"
    /\ run_pos = Len(run_order)
    /\ IF Len(run_order) < Len(patcher)
       THEN /\ Finish("panic", "")
            /\ UNCHANGED gc_disc
       ELSE /\ gc_disc' =
                 LET marked == add_file(add_file(gc_disc, "randomprime.txt"), "mpdr.txt")
                 IN  IF /\ config.is_item_randomized # Some(TRUE)
                        /\ config.version # "Ntsc0_01"
                        /\ config.version # "Pal"
                     THEN add_file(marked, "patches.rel")
                     ELSE marked
            /\ pc' = "output"
            /\ UNCHANGED <<result, err_msg>>
    /\ UNCHANGED <<cat_vars, config, areas, output_iso, door_resources, pickup_resources,
                   patcher, room_idx, layout_iterator, door_rng, run_order, run_pos,
                   fresh_instance_id_range, applied, allocated>>

\* match config.iso_format: the output file is resized or wrapped in a writer
PrepareOutput ==
    /\ pc = "output"
    /\ \E io_error \in BOOLEAN :
         /\ output_iso' = Append(output_iso,
                CASE config.iso_format = "Iso"  -> "set_len"
                  [] config.iso_format = "Gcz"  -> "GczWriter::new"
                  [] config.iso_format = "Ciso" -> "CisoWriter::new")
         /\ IF io_error
            THEN Finish("Err", IF config.iso_format = "Iso"
                               THEN "Failed to resize output file"
                               ELSE "Failed to prepare output file for writing")
            ELSE /\ pc' = "write"
                 /\ UNCHANGED <<result, err_msg>>
    /\ UNCHANGED <<cat_vars, config, gc_disc, areas, door_resources, pickup_resources,
                   patcher, room_idx, layout_iterator, door_rng, run_order, run_pos,
                   fresh_instance_id_range, applied, allocated>>

\* gc_disc.write
WriteDisc ==
    /\ pc = "write"
    /\ \E io_error \in BOOLEAN :
         /\ output_iso' = Append(output_iso, "write")
         /\ IF io_error THEN Finish("Err", "Error writing output file")
                        ELSE Finish("Ok", "")
    /\ UNCHANGED <<cat_vars, config, gc_disc, areas, door_resources, pickup_resources,
                   patcher, room_idx, layout_iterator, door_rng, run_order, run_pos,
                   fresh_instance_id_range, applied, allocated>>

Next ==
    \/ Validate
    \/ CollectResources
    \/ RegisterRoom
    \/ RegisterRest
    \/ RunCallback
    \/ AddMarkers
    \/ PrepareOutput
    \/ WriteDisc

----------------------------------------------------------------------------
(* The configurations and input discs the checks run on *)

MaxMissing == 1
MaxSeed == 2
MaxOverrides == 3
MaxLayouts == 3

\* Weights
Weights(chozo_ruins) ==
    [chozo_ruins |-> chozo_ruins, phendrana_drifts |-> <<25, 25, 25, 25>>,
     tallon_overworld |-> <<100, 0, 0, 0>>, phazon_mines |-> <<0, 100, 0, 0>>,
     magmoor_caverns |-> <<0, 0, 50, 50>>]

WeightTables ==
    { <<100, 0, 0, 0>>, <<25, 25, 25, 25>>, <<40, 40, 10, 0>>, <<200, 100, 28, 28>>,
      <<0, 200, 100, 56>> }

\* the values an entry of excluded_doors takes
OverrideValues ==
    << "default", "missile", "bogus", "random", "Missile", "red", "power_bomb", "ai" >>

Overrides == { OverrideValues[i] : i \in 1..MaxOverrides }

\* excluded_doors: per level, per room name, the entry of every dock
ExcludedDoors(by_room) ==
    [level \in 0..6 |->
        [name \in { PICKUP_LOCATIONS[r].name : r \in { q \in Rooms :
                        Level(PICKUP_LOCATIONS[q].pak) = level } } |->
            by_room[CHOOSE r \in Rooms : PICKUP_LOCATIONS[r].name = name]]]

BaseConfig ==
    [pal_override |-> FALSE, iso_format |-> "Iso", is_item_randomized |-> None,
     version |-> "none", seed |-> 0, door_weights |-> Weights(<<25, 25, 25, 25>>),
     excluded_doors |-> ExcludedDoors(<< <<"blue">>, <<"missile">>, <<"random">>,
                                         <<"default", "red">>, <<"default">> >>),
     patch_map |-> TRUE, skip_frigate |-> FALSE, skip_impact_crater |-> FALSE,
     keep_fmvs |-> FALSE, skip_hudmenus |-> FALSE, powerbomb_lockpick |-> FALSE,
     patch_vertical_to_blue |-> FALSE, pickup_layout |-> <<0, 29, 35, 6>>,
     bnr_game_name |-> None]

\* the resources an input disc may lack
MissingCandidates ==
    { <<forcefield_txtr("Purple"), "TXTR">>, resource_info("blueShield_v1.CMDL"),
      resource_info("18D0AEE6.CMDL"), resource_info("Node1_11.CMDL"),
      <<hudmemo_strg("Missile"), "STRG">> }

MissingSets == { m \in SUBSET MissingCandidates : Cardinality(m) <= MaxMissing }

InputDisc(game_identifier, disc_id, version, files, missing) ==
    [header |-> [game_identifier |-> game_identifier, disc_id |-> disc_id,
                 version |-> version],
     files |-> files, paks |-> InputPaks(missing), added |-> << >>]

\* the state patch_iso starts in
Start(cfg, disc) ==
    /\ pc = "patch_iso"
    /\ config = cfg
    /\ gc_disc = disc
    /\ areas = InputAreas
    /\ output_iso = << >>
    /\ result = "none"
    /\ err_msg = ""
    /\ door_resources = NoValue
    /\ pickup_resources = NoValue
    /\ patcher = << >>
    /\ room_idx = 0
    /\ layout_iterator = 0
    /\ door_rng = 0
    /\ run_order = << >>
    /\ run_pos = 0
    /\ fresh_instance_id_range = 0
    /\ applied = << >>
    /\ allocated = << >>
    /\ cat_in = "Blue"
    /\ cat_op = "idle"
    /\ cat_out = NoValue

\* every header and marker-file combination, and the discs that lack resources
Init ==
    \E game_identifier \in {"GM8E01", "GM8P01", "GALE01"}, disc_id \in 0..1, version \in 0..3,
       files \in SUBSET {"randomprime.txt", "mpdr.txt"}, pal_override \in BOOLEAN,
       iso_format \in {"Iso", "Gcz", "Ciso"}, missing \in MissingSets,
       bnr_game_name \in {None, Some(12), Some(40)} :
        Start([BaseConfig EXCEPT !.pal_override = pal_override, !.iso_format = iso_format,
                                 !.bnr_game_name = bnr_game_name],
              InputDisc(game_identifier, disc_id, version, files, missing))

Spec == Init /\ [][Next]_vars

\* the door configurations: overrides of the two Chozo doors, weights, seeds
InitDoors ==
    \E plaza \in Overrides, tower \in Overrides, chozo_ruins \in WeightTables,
       seed \in 0..MaxSeed, patch_vertical_to_blue \in BOOLEAN,
       powerbomb_lockpick \in BOOLEAN, skip_frigate \in BOOLEAN,
       files \in {{}, {"randomprime.txt"}} :
        Start([BaseConfig EXCEPT
                  !.seed = seed, !.door_weights = Weights(chozo_ruins),
                  !.excluded_doors = ExcludedDoors(<< <<"missile">>, <<plaza>>, <<tower>>,
                                                      <<"default", "red">>, <<"random">> >>),
                  !.patch_vertical_to_blue = patch_vertical_to_blue,
                  !.powerbomb_lockpick = powerbomb_lockpick,
                  !.skip_frigate = skip_frigate],
              InputDisc("GM8E01", 0, 0, files, {}))

SpecDoors == InitDoors /\ [][Next]_vars

\* the pickup layouts: every layout over three pickup types, of every length
LayoutValues == << 0, 29, 35, 6, 23 >>

Layouts ==
    UNION { [1..n -> { LayoutValues[i] : i \in 1..MaxLayouts }] : n \in 0..4 }

InitPatcher ==
    \E pickup_layout \in Layouts, skip_frigate \in BOOLEAN, skip_hudmenus \in BOOLEAN,
       plaza \in {"default", "missile"} :
        Start([BaseConfig EXCEPT
                  !.pickup_layout = pickup_layout, !.skip_frigate = skip_frigate,
                  !.skip_hudmenus = skip_hudmenus,
                  !.excluded_doors = ExcludedDoors(<< <<"blue">>, <<plaza>>, <<"random">>,
                                                      <<"default", "red">>, <<"default">> >>)],
              InputDisc("GM8E01", 0, 2, {}, {}))

SpecPatcher == InitPatcher /\ [][Next]_vars

----------------------------------------------------------------------------
(* door_meta.rs: DoorType::from_string. A String is a sequence of characters *)

LowerAlphabet == <<"a", "b", "c", "d", "e", "f", "g", "h", "i", "j", "k", "l", "m", "n", "o", "p", "q", "r", "s", "t", "u", "v", "w", "x", "y", "z">>

UpperAlphabet == <<"A", "B", "C", "D", "E", "F", "G", "H", "I", "J", "K", "L", "M", "N", "O", "P", "Q", "R", "S", "T", "U", "V", "W", "X", "Y", "Z">>

WhiteSpace == {" ", "\t", "\n", "\r"}

\* str::trim: "leading and trailing whitespace removed"
RECURSIVE trim(_)
trim(s) ==
    IF s = << >> THEN s
    ELSE IF Head(s) \in WhiteSpace THEN trim(Tail(s))
    ELSE IF s[Len(s)] \in WhiteSpace THEN trim(SubSeq(s, 1, Len(s) - 1))
    ELSE s

\* a to_lowercase that leaves every character as it is
to_lowercase_nothing(s) == s

\* str::to_lowercase, on ASCII
to_lowercase(s) ==
    [i \in DOMAIN s |->
        IF \E k \in DOMAIN UpperAlphabet : UpperAlphabet[k] = s[i]
        THEN LowerAlphabet[CHOOSE k \in DOMAIN UpperAlphabet : UpperAlphabet[k] = s[i]]
        ELSE s[i]]

\* str::replace(from, ""), for a pattern of one character
replace(s, from) == SelectSeq(s, LAMBDA c : c # from)

\* DoorType::from_string
from_string(string) ==
    LET s == replace(replace(to_lowercase(trim(string)), " "), "_")
    IN
      CASE s = <<"b", "l", "u", "e">> -> Some("Blue")
        [] s = <<"p", "o", "w", "e", "r", "o", "n", "l", "y">> -> Some("PowerOnly")
        [] s = <<"p", "u", "r", "p", "l", "e">> -> Some("Purple")
        [] s = <<"w", "a", "v", "e">> -> Some("Purple")
        [] s = <<"w", "a", "v", "e", "b", "e", "a", "m">> -> Some("Purple")
        [] s = <<"w", "h", "i", "t", "e">> -> Some("White")
        [] s = <<"i", "c", "e">> -> Some("White")
        [] s = <<"i", "c", "e", "b", "e", "a", "m">> -> Some("White")
        [] s = <<"r", "e", "d">> -> Some("Red")
        [] s = <<"p", "l", "a", "s", "m", "a">> -> Some("Red")
        [] s = <<"p", "l", "a", "s", "m", "a", "b", "e", "a", "m">> -> Some("Red")
        [] s = <<"p", "o", "w", "e", "r", "b", "o", "m", "b">> -> Some("PowerBomb")
        [] s = <<"b", "o", "m", "b">> -> Some("Bomb")
        [] s = <<"b", "o", "m", "b", "s">> -> Some("Bomb")
        [] s = <<"m", "i", "s", "s", "i", "l", "e">> -> Some("Missile")
        [] s = <<"m", "i", "s", "s", "i", "l", "e", "s">> -> Some("Missile")
        [] s = <<"c", "h", "a", "r", "g", "e">> -> Some("Charge")
        [] s = <<"c", "h", "a", "r", "g", "e", "b", "e", "a", "m">> -> Some("Charge")
        [] s = <<"s", "u", "p", "e", "r">> -> Some("Super")
        [] s = <<"s", "u", "p", "e", "r", "m", "i", "s", "s", "i", "l", "e">> -> Some("Super")
        [] s = <<"s", "u", "p", "e", "r", "m", "i", "s", "s", "i", "l", "e", "s">> -> Some("Super")
        [] s = <<"d", "i", "s", "a", "b", "l", "e", "d">> -> Some("Disabled")
        [] s = <<"w", "a", "v", "e", "b", "u", "s", "t", "e", "r">> -> Some("Wavebuster")
        [] s = <<"i", "c", "e", "s", "p", "r", "e", "a", "d", "e", "r">> -> Some("Icespreader")
        [] s = <<"f", "l", "a", "m", "e", "t", "h", "r", "o", "w", "e", "r">> -> Some("Flamethrower")
        [] s = <<"a", "i">> -> Some("Ai")
        [] OTHER -> None

----------------------------------------------------------------------------
(* patches.rs: the bytes of the generated assets. A parsed CMDL is its
   texture ids and the rest of its data, a parsed ANCS the CMDL id of its
   first character and the rest of its data *)

\* reader_writer::pad_bytes(alignment, n): the zero bytes that bring a length
\* of n up to the next multiple of alignment
pad_bytes(alignment, n) == [i \in 1..((alignment - (n % alignment)) % alignment) |-> 0]

\* a u32 written as four bytes
WriteU32(id) == << id[1] \div 256, id[1] % 256, id[2] \div 256, id[2] % 256 >>

\* Cmdl::write_to
RECURSIVE Cmdl_write_to(_)
Cmdl_write_to(cmdl) ==
    IF cmdl.texture_ids = << >> THEN cmdl.data
    ELSE WriteU32(Head(cmdl.texture_ids))
         \o Cmdl_write_to([cmdl EXCEPT !.texture_ids = Tail(cmdl.texture_ids)])

\* Ancs::write_to
Ancs_write_to(ancs) == WriteU32(ancs.cmdl) \o ancs.data

\* a padding to the next multiple of 16
PadTo16(bytes) == bytes \o pad_bytes(16, Len(bytes))

\* "Pad length to multiple of 32 bytes"
PadTo32(bytes) == bytes \o pad_bytes(32, Len(bytes))

\* pickup_meta::build_resource(file_id, ResourceKind::External(bytes, fourcc))
build_resource(file_id, bytes, fourcc) ==
    [file_id |-> file_id, fourcc |-> fourcc, bytes |-> bytes]

\* create_custom_door_cmdl, from the CMDL it read out of resources
new_door_cmdl(blue_door_cmdl, door_type) ==
    build_resource(
        shield_cmdl(door_type),
        PadTo32(Cmdl_write_to(
            [blue_door_cmdl EXCEPT !.texture_ids[1] = holorim_texture(door_type)])),
        "CMDL")

\* create_suit_icon_cmdl_and_ancs, from the CMDL and the ANCS it read out of
\* resources
new_suit_cmdl_and_ancs(grav_suit_cmdl, grav_suit_ancs, new_cmdl_id, new_ancs_id, new_txtr1, new_txtr2) ==
    << build_resource(
           new_cmdl_id,
           PadTo32(Cmdl_write_to(
               [grav_suit_cmdl EXCEPT !.texture_ids[1] = new_txtr1,
                                      !.texture_ids[4] = new_txtr2])),
           "CMDL"),
       build_resource(
           new_ancs_id,
           PadTo32(Ancs_write_to([grav_suit_ancs EXCEPT !.cmdl = new_cmdl_id])),
           "ANCS") >>

----------------------------------------------------------------------------
(* Catalog evaluation: a catalog function applied to an enumerated variant *)

CatToVertical ==
    /\ cat_op = "init"
    /\ cat_op' = "to_vertical"
    /\ cat_out' = to_vertical(cat_in)
    /\ UNCHANGED <<cat_in, iso_vars>>

CatVulnerability ==
    /\ cat_op = "init"
    /\ cat_op' = "vulnerability"
    /\ cat_out' = vulnerability(cat_in)
    /\ UNCHANGED <<cat_in, iso_vars>>

CatForcefieldTxtr ==
    /\ cat_op = "init"
    /\ cat_op' = "forcefield_txtr"
    /\ cat_out' = forcefield_txtr(cat_in)
    /\ UNCHANGED <<cat_in, iso_vars>>

CatShieldCmdl ==
    /\ cat_op = "init"
    /\ cat_op' = "shield_cmdl"
    /\ cat_out' = shield_cmdl(cat_in)
    /\ UNCHANGED <<cat_in, iso_vars>>

CatDependencies ==
    /\ cat_op = "init"
    /\ cat_op' = "dependencies"
    /\ cat_out' = dependencies(cat_in)
    /\ UNCHANGED <<cat_in, iso_vars>>

\* the BlastShieldType functions, on the blast shield cat_in names
CatBlastVulnerability ==
    /\ cat_op = "init"
    /\ cat_in \in BlastShieldType
    /\ cat_op' = "BlastShieldType::vulnerability"
    /\ cat_out' = BlastShieldType_vulnerability(cat_in)
    /\ UNCHANGED <<cat_in, iso_vars>>

CatBlastDependencies ==
    /\ cat_op = "init"
    /\ cat_in \in BlastShieldType
    /\ cat_op' = "BlastShieldType::dependencies"
    /\ cat_out' = BlastShieldType_dependencies(cat_in)
    /\ UNCHANGED <<cat_in, iso_vars>>

CatNext ==
    \/ CatToVertical
    \/ CatVulnerability
    \/ CatForcefieldTxtr
    \/ CatShieldCmdl
    \/ CatDependencies
    \/ CatBlastVulnerability
    \/ CatBlastDependencies

InitCatalog ==
    /\ cat_in \in DoorType
    /\ cat_op = "init"
    /\ cat_out = NoValue
    /\ pc = "done"
    /\ config = BaseConfig
    /\ gc_disc = InputDisc("GM8E01", 0, 0, {}, {})
    /\ areas = InputAreas
    /\ output_iso = << >>
    /\ result = "none"
    /\ err_msg = ""
    /\ door_resources = NoValue
    /\ pickup_resources = NoValue
    /\ patcher = << >>
    /\ room_idx = 0
    /\ layout_iterator = 0
    /\ door_rng = 0
    /\ run_order = << >>
    /\ run_pos = 0
    /\ fresh_instance_id_range = 0
    /\ applied = << >>
    /\ allocated = << >>

SpecCatalog == InitCatalog /\ [][CatNext]_vars

----------------------------------------------------------------------------
(* The strings DoorType::from_string is applied to *)

\* the synonyms and the variant each names
SynonymTable ==
    { <<<<"b", "l", "u", "e">>, "Blue">>,
      <<<<"p", "o", "w", "e", "r", "o", "n", "l", "y">>, "PowerOnly">>,
      <<<<"p", "u", "r", "p", "l", "e">>, "Purple">>,
      <<<<"w", "a", "v", "e">>, "Purple">>,
      <<<<"w", "a", "v", "e", "b", "e", "a", "m">>, "Purple">>,
      <<<<"w", "h", "i", "t", "e">>, "White">>,
      <<<<"i", "c", "e">>, "White">>,
      <<<<"i", "c", "e", "b", "e", "a", "m">>, "White">>,
      <<<<"r", "e", "d">>, "Red">>,
      <<<<"p", "l", "a", "s", "m", "a">>, "Red">>,
      <<<<"p", "l", "a", "s", "m", "a", "b", "e", "a", "m">>, "Red">>,
      <<<<"p", "o", "w", "e", "r", "b", "o", "m", "b">>, "PowerBomb">>,
      <<<<"b", "o", "m", "b">>, "Bomb">>,
      <<<<"b", "o", "m", "b", "s">>, "Bomb">>,
      <<<<"m", "i", "s", "s", "i", "l", "e">>, "Missile">>,
      <<<<"m", "i", "s", "s", "i", "l", "e", "s">>, "Missile">>,
      <<<<"c", "h", "a", "r", "g", "e">>, "Charge">>,
      <<<<"c", "h", "a", "r", "g", "e", "b", "e", "a", "m">>, "Charge">>,
      <<<<"s", "u", "p", "e", "r">>, "Super">>,
      <<<<"s", "u", "p", "e", "r", "m", "i", "s", "s", "i", "l", "e">>, "Super">>,
      <<<<"s", "u", "p", "e", "r", "m", "i", "s", "s", "i", "l", "e", "s">>, "Super">>,
      <<<<"d", "i", "s", "a", "b", "l", "e", "d">>, "Disabled">>,
      <<<<"w", "a", "v", "e", "b", "u", "s", "t", "e", "r">>, "Wavebuster">>,
      <<<<"i", "c", "e", "s", "p", "r", "e", "a", "d", "e", "r">>, "Icespreader">>,
      <<<<"f", "l", "a", "m", "e", "t", "h", "r", "o", "w", "e", "r">>, "Flamethrower">>,
      <<<<"a", "i">>, "Ai">> }

\* a word in upper case
to_uppercase(s) ==
    [i \in DOMAIN s |->
        IF \E k \in DOMAIN LowerAlphabet : LowerAlphabet[k] = s[i]
        THEN UpperAlphabet[CHOOSE k \in DOMAIN LowerAlphabet : LowerAlphabet[k] = s[i]]
        ELSE s[i]]

\* a word with c inserted after its first k characters
InsertAt(s, k, c) == SubSeq(s, 1, k) \o <<c>> \o SubSeq(s, k + 1, Len(s))

\* spellings of a word that differ in case, surrounding whitespace, spaces
\* and underscores
Spellings(w) ==
    { w,
      to_uppercase(w),
      <<to_uppercase(w)[1]>> \o Tail(w),
      <<" ", "\t">> \o w \o <<"\n">>,
      <<"_">> \o w \o <<"_", " ">>,
      InsertAt(w, 1, " "),
      InsertAt(InsertAt(w, Len(w) - 1, "_"), 2, "_"),
      <<"\t", "_">> \o InsertAt(to_uppercase(w), 2, " ") \o <<" ", "\r", "\n">> }

\* strings that are no spelling of a synonym
UnknownNames ==
    { <<"b", "o", "g", "u", "s">>,
      <<>>,
      <<"b", "o", "o", "s", "t">>,
      <<"v", "e", "r", "t", "i", "c", "a", "l", "b", "l", "u", "e">>,
      <<"b", "l", "u">>,
      <<"b", "l", "u", "e", "e">>,
      <<"r", "e", "-", "d">>,
      <<"m", "i", "s", "\t", "s", "i", "l", "e">>,
      <<"w", "a", "v", "e", " ", "b", "e", "a", "m", "2">>,
      <<"_", "\t", "r", "e", "d">>,
      <<"d", "e", "f", "a", "u", "l", "t">>,
      <<"r", "a", "n", "d", "o", "m">> }

NameInputs == UNION { Spellings(e[1]) : e \in SynonymTable } \cup UnknownNames

CatFromString ==
    /\ cat_op = "init"
    /\ cat_op' = "from_string"
    /\ cat_out' = from_string(cat_in)
    /\ UNCHANGED <<cat_in, iso_vars>>

InitNames ==
    /\ cat_in \in NameInputs
    /\ cat_op = "init"
    /\ cat_out = NoValue
    /\ pc = "done"
    /\ config = BaseConfig
    /\ gc_disc = InputDisc("GM8E01", 0, 0, {}, {})
    /\ areas = InputAreas
    /\ output_iso = << >>
    /\ result = "none"
    /\ err_msg = ""
    /\ door_resources = NoValue
    /\ pickup_resources = NoValue
    /\ patcher = << >>
    /\ room_idx = 0
    /\ layout_iterator = 0
    /\ door_rng = 0
    /\ run_order = << >>
    /\ run_pos = 0
    /\ fresh_instance_id_range = 0
    /\ applied = << >>
    /\ allocated = << >>

NameNext ==
    \/ CatFromString

SpecNames == InitNames /\ [][NameNext]_vars

----------------------------------------------------------------------------
(* Asset generation: a generator applied twice to the same source asset *)

\* the largest number of data bytes of a source asset
MaxData == 32

\* a source CMDL with k texture ids and n further bytes
SourceCmdl(k, n) ==
    [texture_ids |-> [i \in 1..k |-> Id(\h0100, i)], data |-> [i \in 1..n |-> (i * 37) % 256]]

\* a source ANCS with n further bytes
SourceAncs(n) == [cmdl |-> Id(\h0200, 1), data |-> [i \in 1..n |-> (i * 41) % 256]]

\* the two calls of create_suit_icon_cmdl_and_ancs
SuitIcons == {"Nothing", "Phazon Suit"}

SuitIconAssets(icon) ==
    IF icon = "Nothing"
    THEN new_suit_cmdl_and_ancs(
             SourceCmdl(cat_in.textures, cat_in.len), SourceAncs(cat_in.len),
             custom_asset_ids("NOTHING_CMDL"), custom_asset_ids("NOTHING_ANCS"),
             custom_asset_ids("NOTHING_TXTR"), custom_asset_ids("PHAZON_SUIT_TXTR2"))
    ELSE new_suit_cmdl_and_ancs(
             SourceCmdl(cat_in.textures, cat_in.len), SourceAncs(cat_in.len),
             custom_asset_ids("PHAZON_SUIT_CMDL"), custom_asset_ids("PHAZON_SUIT_ANCS"),
             custom_asset_ids("PHAZON_SUIT_TXTR1"), custom_asset_ids("PHAZON_SUIT_TXTR2"))

CatCreateDoorCmdl ==
    /\ cat_op = "init"
    /\ cat_in.asset \in DoorType
    /\ cat_op' = "create_custom_door_cmdl"
    /\ cat_out' = << <<new_door_cmdl(SourceCmdl(cat_in.textures, cat_in.len), cat_in.asset)>> >>
    /\ UNCHANGED <<cat_in, iso_vars>>

CatCreateDoorCmdlAgain ==
    /\ cat_op = "create_custom_door_cmdl"
    /\ cat_op' = "create_custom_door_cmdl again"
    /\ cat_out' = Append(cat_out,
                         <<new_door_cmdl(SourceCmdl(cat_in.textures, cat_in.len), cat_in.asset)>>)
    /\ UNCHANGED <<cat_in, iso_vars>>

CatCreateSuitIcon ==
    /\ cat_op = "init"
    /\ cat_in.asset \in SuitIcons
    /\ cat_op' = "create_suit_icon_cmdl_and_ancs"
    /\ cat_out' = << SuitIconAssets(cat_in.asset) >>
    /\ UNCHANGED <<cat_in, iso_vars>>

CatCreateSuitIconAgain ==
    /\ cat_op = "create_suit_icon_cmdl_and_ancs"
    /\ cat_op' = "create_suit_icon_cmdl_and_ancs again"
    /\ cat_out' = Append(cat_out, SuitIconAssets(cat_in.asset))
    /\ UNCHANGED <<cat_in, iso_vars>>

AssetNext ==
    \/ CatCreateDoorCmdl
    \/ CatCreateDoorCmdlAgain
    \/ CatCreateSuitIcon
    \/ CatCreateSuitIconAgain

InitAssets ==
    /\ cat_in \in [asset : DoorType, textures : 1..2, len : 0..MaxData]
                \cup [asset : SuitIcons, textures : 4..5, len : 0..MaxData]
    /\ cat_op = "init"
    /\ cat_out = NoValue
    /\ pc = "done"
    /\ config = BaseConfig
    /\ gc_disc = InputDisc("GM8E01", 0, 0, {}, {})
    /\ areas = InputAreas
    /\ output_iso = << >>
    /\ result = "none"
    /\ err_msg = ""
    /\ door_resources = NoValue
    /\ pickup_resources = NoValue
    /\ patcher = << >>
    /\ room_idx = 0
    /\ layout_iterator = 0
    /\ door_rng = 0
    /\ run_order = << >>
    /\ run_pos = 0
    /\ fresh_instance_id_range = 0
    /\ applied = << >>
    /\ allocated = << >>

SpecAssets == InitAssets /\ [][AssetNext]_vars

----------------------------------------------------------------------------
(* patches.rs: the patches of single areas *)

\* structs::Connection
Connection(state, message, target_object_id) ==
    [state |-> state, message |-> message, target_object_id |-> target_object_id]

\* the closure make_elevators_patch registers for the elevator elv of
\* ELEVATORS and its destination dest
make_elevators_patch(ps, area, elv, dest, auto_enabled_elevators) ==
    LET Found(l) == FindObject(area.layers[l], elv.scly_id)
        not_transporter ==
            \E l \in DOMAIN area.layers :
                /\ Found(l) # 0
                /\ area.layers[l][Found(l)].property_data.kind # "WorldTransporter"
        Transported(l) ==
            IF Found(l) = 0 THEN area.layers[l]
            ELSE [area.layers[l] EXCEPT ![Found(l)].property_data =
                    [@ EXCEPT !.mrea = dest.mrea, !.mlvl = dest.mlvl, !.volume = 0]]
        moved == [area EXCEPT !.layers = [l \in DOMAIN area.layers |-> Transported(l)]]
        relays == { i \in DOMAIN area.layers[1] :
                      /\ area.layers[1][i].property_data.kind = "MemoryRelay"
                      /\ area.layers[1][i].property_data.name
                            = "Memory Relay - dim scan holo" }
        mr_id == area.layers[1][CHOOSE i \in relays : \A j \in relays : i <= j].instance_id
        id == NextFresh(ps)
        timer == [instance_id |-> id.value,
                  property_data |-> [kind |-> "Timer", name |-> "Auto enable elevator"],
                  connections |-> << Connection("ZERO", "ACTIVATE", mr_id) >>]
    IN  IF not_transporter THEN Panicked(area, ps)
        ELSE IF ~auto_enabled_elevators THEN Ok(moved, ps, << >>)
        ELSE IF area.layers = << >> THEN Panicked(area, ps)
        ELSE IF relays = {} THEN Ok(moved, ps, << >>)
        ELSE Ok([moved EXCEPT !.layers[1] = Append(@, timer)], id.rest, << id.value >>)

patch_landing_site_cutscene_triggers(ps, area) ==
    LET timer_id == NextFresh(ps)
        layer == area.layers[1]
        not_trigger == \E i \in DOMAIN layer :
                          /\ layer[i].instance_id = 221
                          /\ layer[i].property_data.kind # "Trigger"
        Fixed(obj) ==
            LET connected ==
                    IF obj.instance_id = 427
                    THEN [obj EXCEPT !.connections =
                            Append(@, Connection("ACTIVE", "DEACTIVATE", timer_id.value))]
                    ELSE obj
            IN  IF obj.instance_id = 221
                THEN [connected EXCEPT !.property_data.active = 0]
                ELSE connected
        timer == [instance_id |-> timer_id.value,
                  property_data |-> [kind |-> "Timer", name |-> "Cutscene fixup timer"],
                  connections |-> << Connection("ZERO", "ACTIVATE", 323),
                                     Connection("ZERO", "ACTIVATE", 427),
                                     Connection("ZERO", "ACTIVATE", 484),
                                     Connection("ZERO", "ACTIVATE", 463) >>]
    IN  IF area.layers = << >> THEN Panicked(area, ps)
        ELSE IF not_trigger THEN Panicked(area, timer_id.rest)
        ELSE Ok([area EXCEPT !.layers[1] =
                    Append([i \in DOMAIN layer |-> Fixed(layer[i])], timer)],
                timer_id.rest, << timer_id.value >>)

patch_sun_tower_prevent_wild_before_flaahgra(ps, area) ==
    LET index == FindObject(area.layers[1], \h1D015B)
        sunchamber_layer_change_trigger == area.layers[1][index]
    IN  IF area.layers = << >> THEN Panicked(area, ps)
        ELSE IF index = 0 \/ Len(area.layers) < 2 THEN Panicked(area, ps)
        ELSE Ok([area EXCEPT
                    !.layers[1] = SubSeq(@, 1, index - 1) \o SubSeq(@, index + 1, Len(@)),
                    !.layers[2] = << sunchamber_layer_change_trigger >>],
                ps, << >>)

patch_research_lab_aether_exploding_wall(ps, area) ==
    LET id == NextFresh(ps)
        obj == FindObject(area.layers[1], 2622568)
        function ==
            [instance_id |-> id.value,
             property_data |->
                [kind |-> "SpecialFunction", type_ |-> 16,
                 layer_change_room_id |-> Id(\h3548, \h89CE), layer_change_layer_id |-> 3],
             connections |-> << >>]
    IN  IF area.layers = << >> THEN Panicked(area, ps)
        ELSE IF obj = 0 THEN Panicked(area, id.rest)
        ELSE Ok([area EXCEPT
                    !.layers[1] =
                        Append([@ EXCEPT ![obj].connections =
                                    Append(@, Connection("ZERO", "DECREMENT", id.value))],
                               function)],
                id.rest, << id.value >>)

patch_observatory_2nd_pass_solvablility(ps, area) ==
    LET layer == area.layers[3]
        Counted(obj) ==
            IF obj.instance_id = \h81E0460 \/ obj.instance_id = \h81E0461
            THEN [obj EXCEPT !.connections =
                    Append(@, Connection("DEATH_RATTLE", "INCREMENT", \h1E02EA))]
            ELSE obj
    IN  IF Len(area.layers) < 3 THEN Panicked(area, ps)
        ELSE Ok([area EXCEPT !.layers[3] = [i \in DOMAIN layer |-> Counted(layer[i])]],
                ps, << >>)

make_main_plaza_locked_door_two_ways(ps, area, door_type, cfg) ==
    LET trigger_dooropen_id == \h20007
        timer_doorclose_id == \h20008
        actor_doorshield_id == \h20004
        relay_unlock_id == \h20159
        trigger_doorunlock_id == \h2000F
        door_id == \h20060
        trigger_remove_scan_target_locked_door_id == \h202B8
        scan_target_locked_door_id == \h202F4
        relay_notice_ineffective_weapon_id == \h202FD
        inserted ==
            << [instance_id |-> trigger_doorunlock_id,
                property_data |->
                    [kind |-> "DamageableTrigger",
                     damage_vulnerability |->
                        DamageVulnerability(1, 1, 1, 1, 1, 1, 2, 2, 1,
                            <<3, 2, 2, 2>>, <<2, 2, 1>>,
                            ChargedBeams(1, 1, 1, 1, 1), BeamCombos(2, 2, 2, 2, 1)),
                     pattern_txtr0 |-> Id(\h544A, \h9892),
                     pattern_txtr1 |-> Id(\h544A, \h9892),
                     color_txtr |-> Id(\h8A7F, \h3683)],
                connections |->
                    << Connection("REFLECTED_DAMAGE", "SET_TO_ZERO",
                                  relay_notice_ineffective_weapon_id),
                       Connection("DEAD", "DEACTIVATE", actor_doorshield_id),
                       Connection("MAX_REACHED", "ACTIVATE", actor_doorshield_id),
                       Connection("DEAD", "ACTIVATE", trigger_dooropen_id),
                       Connection("DEAD", "SET_TO_ZERO", door_id) >>],
               [instance_id |-> relay_unlock_id,
                property_data |-> [kind |-> "Relay"],
                connections |->
                    << Connection("ZERO", "ACTIVATE", actor_doorshield_id),
                       Connection("ZERO", "ACTIVATE", trigger_doorunlock_id) >>],
               [instance_id |-> trigger_dooropen_id,
                property_data |-> [kind |-> "Trigger", active |-> 0],
                connections |->
                    << Connection("INSIDE", "OPEN", door_id),
                       Connection("INSIDE", "RESET_AND_START", timer_doorclose_id) >>],
               [instance_id |-> actor_doorshield_id,
                property_data |-> Actor(Id(\h0734, \h977A)),
                connections |-> << >>],
               [instance_id |-> timer_doorclose_id,
                property_data |-> [kind |-> "Timer"],
                connections |->
                    << Connection("ZERO", "CLOSE", door_id),
                       Connection("ZERO", "DEACTIVATE", trigger_dooropen_id) >>] >>
        layer == area.layers[1] \o inserted
        Is(id, kind) ==
            /\ FindObject(layer, id) # 0
            /\ layer[FindObject(layer, id)].property_data.kind = kind
        locked_door_scan == FindObject(layer, scan_target_locked_door_id)
        locked_door == FindObject(layer, door_id)
        scanned ==
            [layer EXCEPT
                ![locked_door_scan].property_data =
                    [@ EXCEPT !.active = 0, !.scan = Id(\hFFFF, \hFFFF)],
                ![locked_door].property_data = [@ EXCEPT !.ancs = Id(\h2688, \h6945)]]
        chozo == cfg.excluded_doors[Level("Metroid2.pak")]
        no_entry == \/ "Main Plaza" \notin DOMAIN chozo
                    \/ Len(chozo["Main Plaza"]) < 5
        door_force == FindObject(layer, trigger_doorunlock_id)
        door_shield == FindObject(layer, actor_doorshield_id)
        typed ==
            IF chozo["Main Plaza"][5] # "default" THEN scanned
            ELSE [scanned EXCEPT
                    ![door_force].property_data =
                        [@ EXCEPT
                            !.color_txtr = forcefield_txtr(door_type),
                            !.damage_vulnerability =
                                [vulnerability(door_type) EXCEPT !.power_bomb =
                                    IF door_type # "Blue" /\ ~cfg.powerbomb_lockpick
                                    THEN 2 ELSE 1]],
                    ![door_shield].property_data =
                        [@ EXCEPT !.cmdl = shield_cmdl(door_type)]]
        trigger_remove_scan_target_locked_door_and_etank ==
            FindObject(layer, trigger_remove_scan_target_locked_door_id)
        unlocked ==
            [typed EXCEPT
                ![trigger_remove_scan_target_locked_door_and_etank].property_data.active = 0,
                ![locked_door].connections =
                    Append(@, Connection("MAX_REACHED", "DEACTIVATE", trigger_doorunlock_id))]
    IN  IF area.layers = << >> THEN Panicked(area, ps)
        ELSE IF ~Is(scan_target_locked_door_id, "PointOfInterest") \/ ~Is(door_id, "Door")
        THEN Panicked(area, ps)
        ELSE IF no_entry THEN Panicked(area, ps)
        ELSE IF /\ chozo["Main Plaza"][5] = "default"
                /\ (\/ ~Is(trigger_doorunlock_id, "DamageableTrigger")
                    \/ ~Is(actor_doorshield_id, "Actor"))
        THEN Panicked(area, ps)
        ELSE IF ~Is(trigger_remove_scan_target_locked_door_id, "Trigger")
        THEN Panicked(area, ps)
        ELSE Ok([area EXCEPT !.layers[1] = unlocked], ps, << >>)

----------------------------------------------------------------------------
(* The areas the patches of single areas are applied to *)

AreaPatches ==
    { "make_elevators_patch", "patch_landing_site_cutscene_triggers",
      "patch_sun_tower_prevent_wild_before_flaahgra",
      "patch_research_lab_aether_exploding_wall",
      "patch_observatory_2nd_pass_solvablility",
      "make_main_plaza_locked_door_two_ways" }

\* the elevator of a room and where the layout sends it
Elevator == [scly_id |-> \h2A0007]

Destination == [mrea |-> Id(\h0D5C, \h0004), mlvl |-> Id(\h0A00, 4)]

\* the instance ids a patch looks up in its area
LookedUp(patch) ==
    CASE patch = "make_elevators_patch" -> { Elevator.scly_id }
      [] patch = "patch_landing_site_cutscene_triggers" -> { 427, 221 }
      [] patch = "patch_sun_tower_prevent_wild_before_flaahgra" -> { \h1D015B }
      [] patch = "patch_research_lab_aether_exploding_wall" -> { 2622568 }
      [] patch = "patch_observatory_2nd_pass_solvablility" -> { \h81E0460, \h81E0461 }
      [] patch = "make_main_plaza_locked_door_two_ways" -> { \h202F4, \h20060, \h202B8 }

\* the layers of the area of a patch on the unmodified disc
VanillaLayers(patch) ==
    CASE patch = "make_elevators_patch" ->
            << << SclyObject(\h2A0001, [kind |-> "MemoryRelay",
                                        name |-> "Memory Relay - dim scan holo"]),
                  SclyObject(Elevator.scly_id,
                             [kind |-> "WorldTransporter", mrea |-> Id(\h0D5C, \h0002),
                              mlvl |-> Id(\h0A00, 2), volume |-> 127]) >>,
               << >>, << >> >>
      [] patch = "patch_landing_site_cutscene_triggers" ->
            << << SclyObject(221, [kind |-> "Trigger", active |-> 1]),
                  SclyObject(323, [kind |-> "MemoryRelay", name |-> "Memory Relay Set For Load"]),
                  SclyObject(427, [kind |-> "MemoryRelay", name |-> "Memory Relay Ship"]) >>,
               << >>, << >> >>
      [] patch = "patch_sun_tower_prevent_wild_before_flaahgra" ->
            << << SclyObject(\h1D0001, Other),
                  SclyObject(\h1D015B, [kind |-> "Trigger", active |-> 1]) >>,
               << SclyObject(\h1D0002, Other), SclyObject(\h1D0003, Other) >>,
               << >> >>
      [] patch = "patch_research_lab_aether_exploding_wall" ->
            << << SclyObject(2622568, Other) >>, << >>, << >> >>
      [] patch = "patch_observatory_2nd_pass_solvablility" ->
            << << SclyObject(\h1E02EA, [kind |-> "Counter"]) >>,
               << >>,
               << SclyObject(\h81E0460, Other), SclyObject(\h81E0461, Other) >> >>
      [] patch = "make_main_plaza_locked_door_two_ways" ->
            << << SclyObject(\h20060, [kind |-> "Door", ancs |-> Id(\hFFFF, \hFFFF)]),
                  SclyObject(\h202B8, [kind |-> "Trigger", active |-> 1]),
                  SclyObject(\h202F4, [kind |-> "PointOfInterest", active |-> 1,
                                       scan |-> Id(\h0D5C, \h0001)]),
                  SclyObject(\h202FD, [kind |-> "Relay"]) >>,
               << >>, << >> >>

\* the resources the layers of the area list on the unmodified disc: Main
\* Plaza lists what its blue doors use
VanillaDependencies(patch) ==
    IF patch = "make_main_plaza_locked_door_two_ways"
    THEN << dependencies("Blue")
                \o << <<Id(\h544A, \h9892), "TXTR">>, <<Id(\h2688, \h6945), "ANCS">> >>,
            << >>, << >> >>
    ELSE << << >>, << >>, << >> >>

\* the area of a patch when the objects in missing are not on the disc
AreaWithout(patch, missing) ==
    [layers |-> [l \in 1..3 |->
                    SelectSeq(VanillaLayers(patch)[l],
                              LAMBDA obj : obj.instance_id \notin missing)],
     dependencies |-> VanillaDependencies(patch)]

\* what a patch is applied to: the objects its area lacks, the door type
\* calculate_door_type drew, the entry of excluded_doors for the fifth dock of
\* Main Plaza, and the options the closure captured
AreaPatchInputs ==
    [patch : {"make_main_plaza_locked_door_two_ways"},
     missing : SUBSET LookedUp("make_main_plaza_locked_door_two_ways"),
     door_type : {"Blue", "Purple", "White", "Red"},
     override : {"default", "missile"},
     powerbomb_lockpick : BOOLEAN,
     auto_enabled_elevators : {FALSE}]
    \cup
    UNION { [patch : {p}, missing : SUBSET LookedUp(p), door_type : {"Blue"},
             override : {"default"}, powerbomb_lockpick : {FALSE},
             auto_enabled_elevators : {FALSE}] :
            p \in AreaPatches \ {"make_elevators_patch",
                                 "make_main_plaza_locked_door_two_ways"} }
    \cup
    [patch : {"make_elevators_patch"},
     missing : SUBSET (LookedUp("make_elevators_patch") \cup {\h2A0001}),
     door_type : {"Blue"}, override : {"default"}, powerbomb_lockpick : {FALSE},
     auto_enabled_elevators : BOOLEAN]

InitAreaPatches ==
    /\ cat_in \in AreaPatchInputs
    /\ cat_op = "init"
    /\ cat_out = NoValue
    /\ pc = "area_patch"
    /\ config = [BaseConfig EXCEPT
                    !.excluded_doors[Level("Metroid2.pak")]["Main Plaza"] =
                        << "default", "default", "default", "default", cat_in.override >>,
                    !.powerbomb_lockpick = cat_in.powerbomb_lockpick]
    /\ gc_disc = NoValue
    /\ areas = << AreaWithout(cat_in.patch, cat_in.missing) >>
    /\ output_iso = << >>
    /\ result = "none"
    /\ err_msg = NoValue
    /\ door_resources = NoValue
    /\ pickup_resources = NoValue
    /\ patcher = << >>
    /\ room_idx = 0
    /\ layout_iterator = 0
    /\ door_rng = NoValue
    /\ run_order = << >>
    /\ run_pos = 0
    /\ fresh_instance_id_range = FreshStart(areas)
    /\ applied = << >>
    /\ allocated = << >>

\* PrimePatcher::run invokes the callback on its area
AreaPatched(patch, done) ==
    /\ pc = "area_patch"
    /\ cat_in.patch = patch
    /\ pc' = "done"
    /\ cat_op' = patch
    /\ result' = IF done.status = "Ok" THEN "Ok" ELSE "panic"
    /\ areas' = << done.area >>
    /\ fresh_instance_id_range' = done.ps
    /\ allocated' = allocated \o done.ids
    /\ UNCHANGED <<cat_in, cat_out, config, gc_disc, output_iso, err_msg,
                   door_resources, pickup_resources, patcher, room_idx,
                   layout_iterator, door_rng, run_order, run_pos, applied>>

AreaElevator ==
    AreaPatched("make_elevators_patch",
                make_elevators_patch(fresh_instance_id_range, areas[1], Elevator,
                                     Destination, cat_in.auto_enabled_elevators))

AreaLandingSite ==
    AreaPatched("patch_landing_site_cutscene_triggers",
                patch_landing_site_cutscene_triggers(fresh_instance_id_range, areas[1]))

AreaSunTower ==
    AreaPatched("patch_sun_tower_prevent_wild_before_flaahgra",
                patch_sun_tower_prevent_wild_before_flaahgra(fresh_instance_id_range,
                                                             areas[1]))

AreaExplodingWall ==
    AreaPatched("patch_research_lab_aether_exploding_wall",
                patch_research_lab_aether_exploding_wall(fresh_instance_id_range,
                                                         areas[1]))

AreaObservatory ==
    AreaPatched("patch_observatory_2nd_pass_solvablility",
                patch_observatory_2nd_pass_solvablility(fresh_instance_id_range,
                                                        areas[1]))

AreaMainPlaza ==
    AreaPatched("make_main_plaza_locked_door_two_ways",
                make_main_plaza_locked_door_two_ways(fresh_instance_id_range, areas[1],
                                                     cat_in.door_type, config))

AreaNext ==
    \/ AreaElevator
    \/ AreaLandingSite
    \/ AreaSunTower
    \/ AreaExplodingWall
    \/ AreaObservatory
    \/ AreaMainPlaza

SpecAreaPatches == InitAreaPatches /\ [][AreaNext]_vars

----------------------------------------------------------------------------
(* patches.rs: the scan texts of the Artifact Temple totems *)

\* the twelve generic templates, each cut where "{room}" stands, without
\* the closing NUL
generic_text_templates ==
    <<
       << "I mean, maybe it'll be in the &push;&main-color=#43CD80;",
          "{room}",
          "&pop;. I forgot, to be honest." >>,
       << "I'm not sure where the artifact exactly is, but like, you can try the &push;&main-color=#43CD80;",
          "{room}",
          "&pop;." >>,
       << "Hey man, so some of the Chozo dudes are telling me that they're might be a thing in the &push;&main-color=#43CD80;",
          "{room}",
          "&pop;. Just sayin'." >>,
       << "Uhh umm... Where was it...? Uhhh, errr, it's definitely in the &push;&main-color=#43CD80;",
          "{room}",
          "&pop;! I am 100% not totally making it up..." >>,
       << "Some say it may be in the &push;&main-color=#43CD80;",
          "{room}",
          "&pop;. Others say that you have no business here. Please leave me alone." >>,
       << "So a buddy of mine and I were drinking one night and we thought 'Hey, wouldn't be crazy if we put it at the &push;&main-color=#43CD80;",
          "{room}",
          "&pop;?' So we did and it took both of us just to get it there!" >>,
       << "So, uhhh, I kind of got a little lazy and I might have just dropped mine somewhere... Maybe it's in the &push;&main-color=#43CD80;",
          "{room}",
          "&pop;? Who knows." >>,
       << "I uhhh... was a little late to the party and someone had to run out and hide both mine and hers. I owe her one. She told me it might be in the &push;&main-color=#43CD80;",
          "{room}",
          "&pop;, so you're going to have to trust her on this one." >>,
       << "Okay, so this jerk forgets to hide his and I had to hide it for him too. So, I just tossed his somewhere and made up a name for the room. This is literally saving the planet - how can anyone forget that? Anyway, mine is in the &push;&main-color=#43CD80;",
          "{room}",
          "&pop;, so go check it out. I'm never doing this again..." >>,
       << "To be honest, I don't know if it was a Missile Expansion or not. Maybe it was... We'll just go with that: There's a Missile Expansion at the &push;&main-color=#43CD80;",
          "{room}",
          "&pop;." >>,
       << "Hear the words of Oh Leer, last Chozo of the Artifact Temple. May they serve you well, that you may find a key lost to our cause... Alright, whatever. It's at the &push;&main-color=#43CD80;",
          "{room}",
          "&pop;." >>,
       << "I kind of just played Frisbee with mine. It flew and landed too far so I didn't want to walk over and grab it because I was lazy. It's in the &push;&main-color=#43CD80;",
          "{room}",
          "&pop; if you want to find it." >>
    >>

\* specific_room_templates: (room_id, templates) rows
specific_room_templates ==
    << << Id(\h2398, \hE906),
          << << "{pickup}", " awaits those who truly seek it." >> >> >> >>

\* str::replace on a text cut at its placeholders
str_replace(text, from, to) == [i \in DOMAIN text |-> IF text[i] = from THEN to ELSE text[i]]

\* SliceRandom::shuffle: the permutation the generator gives
shuffle(slice, permutation) == [i \in DOMAIN slice |-> slice[permutation[i]]]

\* PickupType::name of the artifacts
pickup_name(self) ==
    CASE self = "ArtifactOfLifegiver" -> "Artifact of Lifegiver"
      [] self = "ArtifactOfWild"      -> "Artifact of Wild"
      [] self = "ArtifactOfWorld"     -> "Artifact of World"
      [] self = "ArtifactOfSun"       -> "Artifact of Sun"
      [] self = "ArtifactOfElder"     -> "Artifact of Elder"
      [] self = "ArtifactOfSpirit"    -> "Artifact of Spirit"
      [] self = "ArtifactOfTruth"     -> "Artifact of Truth"
      [] self = "ArtifactOfChozo"     -> "Artifact of Chozo"
      [] self = "ArtifactOfWarrior"   -> "Artifact of Warrior"
      [] self = "ArtifactOfNewborn"   -> "Artifact of Newborn"
      [] self = "ArtifactOfNature"    -> "Artifact of Nature"
      [] self = "ArtifactOfStrength"  -> "Artifact of Strength"

\* names_iter: (room_id, name) of a room, once per pickup location of the room
RECURSIVE names_iter(_)
names_iter(rooms) ==
    IF rooms = << >> THEN << >>
    ELSE [i \in 1..Len(Head(rooms).pickup_locations) |->
            << Head(rooms).room_id, Head(rooms).name >>]
         \o names_iter(Tail(rooms))

\* a totem that never counts as written
scan_text_written_never(scan_text, artifact_id) == FALSE

\* if scan_text[artifact_id].len() != 0 { continue; }
scan_text_written(scan_text, artifact_id) == Len(scan_text[artifact_id + 1]) # 0

\* the loop over the artifacts of pickup_layout zipped with names_iter, from
\* position i on; used logs the templates taken, in order
RECURSIVE TotemLoop(_, _, _, _)
TotemLoop(pickup_layout, names, i, st) ==
    IF st.panicked \/ i > Len(pickup_layout) \/ i > Len(names) THEN st
    ELSE IF ~is_artifact(pickup_layout[i]) THEN TotemLoop(pickup_layout, names, i + 1, st)
    ELSE LET pt == pickup_layout[i]
             artifact_id == idx(pt) - idx("ArtifactOfLifegiver")
             rows == { r \in DOMAIN st.specific : st.specific[r][1] = names[i][1] }
             row == IF rows = {} THEN 0 ELSE CHOOSE r \in rows : \A q \in rows : r <= q
             popped == row # 0 /\ st.specific[row][2] # << >>
             exhausted == ~popped /\ st.generic_next > Len(st.generic)
             template == IF popped
                         THEN st.specific[row][2][Len(st.specific[row][2])]
                         ELSE st.generic[st.generic_next]
             text == str_replace(str_replace(template, "{room}", names[i][2]),
                                 "{pickup}", pickup_name(pt))
         IN  IF scan_text_written(st.scan_text, artifact_id)
             THEN TotemLoop(pickup_layout, names, i + 1, st)
             ELSE IF exhausted THEN [st EXCEPT !.panicked = TRUE]
             ELSE TotemLoop(pickup_layout, names, i + 1,
                    [st EXCEPT
                        !.scan_text[artifact_id + 1] = text,
                        !.specific = IF popped
                                     THEN [@ EXCEPT ![row][2] = SubSeq(@, 1, Len(@) - 1)]
                                     ELSE @,
                        !.generic_next = IF popped THEN @ ELSE @ + 1,
                        !.used = Append(@, template)])

build_artifact_temple_totem_scan_strings(pickup_layout, rooms, permutation) ==
    LET looped ==
            TotemLoop(pickup_layout, names_iter(rooms), 1,
                      [scan_text |-> [a \in 1..12 |-> << >>],
                       generic |-> shuffle(generic_text_templates, permutation),
                       generic_next |-> 1,
                       specific |-> specific_room_templates,
                       panicked |-> FALSE,
                       used |-> << >>])
    IN  [looped EXCEPT !.scan_text =
            [a \in 1..12 |->
                IF Len(@[a]) = 0
                THEN << "Artifact not present. This layout may not be completable." >>
                ELSE @[a]]]

----------------------------------------------------------------------------
(* The layouts the totem texts are built from *)

MaxTotemLayout == 3

\* rooms with the number of pickup locations each has
TotemRoom(room_id, name, locations) ==
    [room_id |-> room_id, name |-> name, pickup_locations |-> [i \in 1..locations |-> i]]

TotemTables ==
    { << TotemRoom(Id(\h0D5C, \h0002), "Main Plaza", 2),
         TotemRoom(Id(\h2398, \hE906), "Artifact Temple", 1),
         TotemRoom(Id(\h11BD, \h63B7), "Tower Chamber", 11) >>,
      << TotemRoom(Id(\h2398, \hE906), "Artifact Temple", 2),
         TotemRoom(Id(\h0D5C, \h0002), "Main Plaza", 12) >> }

TotemPermutations ==
    { [i \in 1..12 |-> i], [i \in 1..12 |-> 13 - i], [i \in 1..12 |-> ((i + 4) % 12) + 1] }

\* every artifact once, in the order of their indices, then two again
EveryArtifact ==
    [i \in 1..12 |-> PickupTypeIter[idx("ArtifactOfLifegiver") + i]]
    \o << "ArtifactOfWild", "ArtifactOfLifegiver" >>

TotemLayouts ==
    UNION { [1..n -> {"ArtifactOfLifegiver", "ArtifactOfWild", "ArtifactOfStrength", "Missile"}] :
            n \in 0..MaxTotemLayout }
    \cup { EveryArtifact, Reverse(EveryArtifact) }

CatTotemScanStrings ==
    /\ cat_op = "init"
    /\ cat_op' = "build_artifact_temple_totem_scan_strings"
    /\ cat_out' = build_artifact_temple_totem_scan_strings(
                      cat_in.pickup_layout, cat_in.rooms, cat_in.permutation)
    /\ UNCHANGED <<cat_in, iso_vars>>

TotemNext == CatTotemScanStrings

InitTotems ==
    /\ cat_in \in [pickup_layout : TotemLayouts, rooms : TotemTables,
                   permutation : TotemPermutations]
    /\ cat_op = "init"
    /\ cat_out = NoValue
    /\ pc = "done"
    /\ config = BaseConfig
    /\ gc_disc = InputDisc("GM8E01", 0, 0, {}, {})
    /\ areas = InputAreas
    /\ output_iso = << >>
    /\ result = "none"
    /\ err_msg = ""
    /\ door_resources = NoValue
    /\ pickup_resources = NoValue
    /\ patcher = << >>
    /\ room_idx = 0
    /\ layout_iterator = 0
    /\ door_rng = 0
    /\ run_order = << >>
    /\ run_pos = 0
    /\ fresh_instance_id_range = 0
    /\ applied = << >>
    /\ allocated = << >>

SpecTotems == InitTotems /\ [][TotemNext]_vars

----------------------------------------------------------------------------
(* patches.rs: the door types build_and_run_patches draws *)

\* the generator after a number of draws
RECURSIVE rng_after(_, _)
rng_after(rng, draws) == IF draws = 0 THEN rng ELSE rng_after(sample(rng).rng, draws - 1)

\* the draws from rng before the room loop: shuffle of the twelve generic
\* templates (eleven), of the one-template row (none), choose of the FMV suffix
DrawsBeforeRooms == 11 + 0 + 1

\* the pickup locations of the rooms the loop does not pass over
PlacedLocations(cfg) ==
    SumSeq([r \in 1..Len(PICKUP_LOCATIONS) |->
              IF \/ (Level(PICKUP_LOCATIONS[r].pak) = 0 /\ cfg.skip_frigate)
                 \/ (Level(PICKUP_LOCATIONS[r].pak) = 6 /\ cfg.skip_impact_crater)
              THEN 0 ELSE Len(PICKUP_LOCATIONS[r].pickup_locations)])

\* pickup_type == PickupType::Missile && rng.gen_ratio(1, 1024): one draw for
\* every Missile the layout places, none when the items are randomized already
shiny_draws(cfg) ==
    IF cfg.is_item_randomized = Some(TRUE) THEN 0
    ELSE Cardinality({ i \in 1..Len(cfg.pickup_layout) :
                        /\ i <= PlacedLocations(cfg)
                        /\ from_idx(cfg.pickup_layout[i]) = "Missile" })

\* if config.enable_vault_ledge_door { let door_type = calculate_door_type(
\* "Metroid2.pak", &mut rng, ..) }: the type make_main_plaza_locked_door_two_ways
\* gives the door when its entry of excluded_doors is "default"
vault_ledge_door_type(cfg, overflow_checks) ==
    calculate_door_type("Metroid2.pak",
                        rng_after(seed_from_u64(cfg.seed), DrawsBeforeRooms + shiny_draws(cfg)),
                        cfg.door_weights, overflow_checks)

\* the room loop from room r on
RECURSIVE RegisterRooms(_, _, _, _)
RegisterRooms(acc, r, cfg, overflow_checks) ==
    IF acc.panicked \/ r > Len(PICKUP_LOCATIONS) THEN acc
    ELSE RegisterRooms(RegisterRoomPatches(acc, r, cfg, overflow_checks), r + 1, cfg,
                       overflow_checks)

\* the door type of every door patch build_and_run_patches registers, and the
\* type the Main Plaza patch it registers when the items are not randomized
\* yet gives the vault ledge door (enable_vault_ledge_door is set)
door_types(cfg, overflow_checks) ==
    LET done == RegisterRooms([patches |-> << >>, door_rng |-> seed_from_u64(cfg.seed),
                               layout_iterator |-> 0, panicked |-> FALSE],
                              1, cfg, overflow_checks)
        vault == vault_ledge_door_type(cfg, overflow_checks)
    IN  [panicked |-> done.panicked \/ vault.panicked,
         doors |-> { << done.patches[i].room, done.patches[i].args.door_location,
                        done.patches[i].args.door_type >> :
                     i \in { j \in DOMAIN done.patches :
                                done.patches[j].callback = "patch_door" } },
         vault_ledge |->
            IF /\ cfg.is_item_randomized # Some(TRUE)
               /\ cfg.excluded_doors[Level("Metroid2.pak")]["Main Plaza"][5] = "default"
            THEN Some(vault.door_type) ELSE None]

----------------------------------------------------------------------------
(* The configurations the door types are drawn for *)

MaxDoorSeed == 2

DoorTypeInputs ==
    [seed : 0..MaxDoorSeed,
     chozo_ruins : { <<25, 25, 25, 25>>, <<0, 50, 25, 25>> },
     plaza : {"missile", "random"},
     tower : {"red", "random"},
     vault : {"default", "missile"},
     pickup_layout : { << >>, <<0, 29>>, <<0, 0, 6>> },
     is_item_randomized : BOOLEAN,
     skip_frigate : BOOLEAN,
     patch_vertical_to_blue : BOOLEAN]

\* the ParsedConfig of an input, with enable_vault_ledge_door set
DoorTypeConfig(in) ==
    [BaseConfig EXCEPT
        !.seed = in.seed,
        !.door_weights = Weights(in.chozo_ruins),
        !.excluded_doors =
            ExcludedDoors(<< <<"missile">>,
                             <<in.plaza, "default", "default", "default", in.vault>>,
                             <<in.tower>>, <<"default", "random">>, <<"random">> >>),
        !.pickup_layout = in.pickup_layout,
        !.is_item_randomized = Some(in.is_item_randomized),
        !.skip_frigate = in.skip_frigate,
        !.patch_vertical_to_blue = in.patch_vertical_to_blue]

CatDoorTypes ==
    /\ cat_op = "init"
    /\ cat_op' = "door_types"
    /\ \E overflow_checks \in BOOLEAN :
         cat_out' = door_types(DoorTypeConfig(cat_in), overflow_checks)
    /\ UNCHANGED <<cat_in, iso_vars>>

DoorTypeNext == CatDoorTypes

InitDoorTypes ==
    /\ cat_in \in DoorTypeInputs
    /\ cat_op = "init"
    /\ cat_out = NoValue
    /\ pc = "done"
    /\ config = BaseConfig
    /\ gc_disc = InputDisc("GM8E01", 0, 0, {}, {})
    /\ areas = InputAreas
    /\ output_iso = << >>
    /\ result = "none"
    /\ err_msg = ""
    /\ door_resources = NoValue
    /\ pickup_resources = NoValue
    /\ patcher = << >>
    /\ room_idx = 0
    /\ layout_iterator = 0
    /\ door_rng = 0
    /\ run_order = << >>
    /\ run_pos = 0
    /\ fresh_instance_id_range = 0
    /\ applied = << >>
    /\ allocated = << >>

SpecDoorTypes == InitDoorTypes /\ [][DoorTypeNext]_vars

----------------------------------------------------------------------------
(* The state of the pipeline while a single function is looked at *)

IdlePipeline ==
    /\ pc = "done"
    /\ config = BaseConfig
    /\ gc_disc = InputDisc("GM8E01", 0, 0, {}, {})
    /\ areas = InputAreas
    /\ output_iso = << >>
    /\ result = "none"
    /\ err_msg = ""
    /\ door_resources = NoValue
    /\ pickup_resources = NoValue
    /\ patcher = << >>
    /\ room_idx = 0
    /\ layout_iterator = 0
    /\ door_rng = 0
    /\ run_order = << >>
    /\ run_pos = 0
    /\ fresh_instance_id_range = 0
    /\ applied = << >>
    /\ allocated = << >>

----------------------------------------------------------------------------
(* The pickup patch of one pickup location and its hudmemo *)

\* the position of the pickup location in the pickup layout, its new pickup,
\* the flag and the hudmemo as it is on the disc
HudmemoInputs ==
    [location_idx : {0, 22, 23, 50, 63, 99},
     pickup_type : {"Missile", "ChargeBeam", "ArtifactOfTruth", "Nothing"},
     skip_hudmenus : BOOLEAN,
     first_message_timer : {3, 5},
     memo_type : {0, 1}]

HudmemoLocation == PICKUP_LOCATIONS[2].pickup_locations[1]

\* the area of the pickup location with the hudmemo of the input
HudmemoArea(in) ==
    LET area == InputArea(2)
        layer == HudmemoLocation.hudmemo.layer + 1
        at == FindObject(area.layers[layer], HudmemoLocation.hudmemo.instance_id)
    IN  [area EXCEPT !.layers[layer][at].property_data =
                        HudMemo(in.first_message_timer, in.memo_type, Id(0, 0))]

\* pickup_resources as build_and_run_patches hands it to the pickup patches
HudmemoPool(in) ==
    LET pickups == collect_pickup_resources(InputDisc("GM8E01", 0, 0, {}, {}))
    IN  IF in.skip_hudmenus THEN add_skip_hudmemos_strgs(pickups, PickupTypeIter).found
        ELSE pickups.found

\* the patch build_and_run_patches registers for the pickup location: the
\* closure is given the pickup type and the location, and no index
CatModifyPickup ==
    /\ cat_op = "init"
    /\ cat_op' = "modify_pickups_in_mrea"
    /\ \E area \in { HudmemoArea(cat_in) }, pool \in { HudmemoPool(cat_in) } :
       \E done \in { modify_pickups_in_mrea(FreshStart(<<area>>), area, cat_in.pickup_type,
                                            HudmemoLocation, pool,
                                            [BaseConfig EXCEPT
                                                !.skip_hudmenus = cat_in.skip_hudmenus]) } :
           cat_out' =
              [status |-> done.status,
               hudmemo |->
                  LET layer == done.area.layers[HudmemoLocation.hudmemo.layer + 1]
                  IN  layer[FindObject(layer, HudmemoLocation.hudmemo.instance_id)]
                          .property_data,
               dependencies |-> done.area.dependencies[Len(done.area.dependencies)]]
    /\ UNCHANGED <<cat_in, iso_vars>>

HudmemoNext == CatModifyPickup

InitHudmemo ==
    /\ cat_in \in HudmemoInputs
    /\ cat_op = "init"
    /\ cat_out = NoValue
    /\ IdlePipeline

SpecHudmemo == InitHudmemo /\ [][HudmemoNext]_vars

----------------------------------------------------------------------------
(* collect_pickup_resources and collect_door_resources, one step at a time *)

CollectInputs == [collector : {"pickup", "door"}, missing : MissingSets]

CollectDisc == InputDisc("GM8E01", 0, 0, {}, cat_in.missing)

\* looking_for and found as the collector sets them up, and what is left of
\* each of its loops
CollectStart(in) ==
    [step |-> "start",
     phase |-> "extra",
     st |-> [EmptyPool EXCEPT !.looking_for = IF in.collector = "pickup"
                                              THEN PickupLookingFor ELSE DoorLookingFor],
     extra |-> IF in.collector = "pickup" THEN extra_assets ELSE extra_assets_doors,
     pak |-> 0,
     resources |-> << >>,
     new_assets |-> << >>]

\* one turn of "for res in extra_assets"
CollectExtraAsset ==
    /\ cat_out.phase = "extra"
    /\ ~cat_out.st.panicked
    /\ cat_out.extra # << >>
    /\ cat_out' = [cat_out EXCEPT !.step = "extra",
                                  !.st = AddExtraAssets(@, << Head(cat_out.extra) >>),
                                  !.extra = Tail(@)]
    /\ UNCHANGED <<cat_in, cat_op, iso_vars>>

\* gc_disc.find_file(pak_name).unwrap() of the next pak, or the end of the paks
CollectFindFile ==
    /\ cat_out.phase \in {"extra", "paks"}
    /\ ~cat_out.st.panicked
    /\ cat_out.extra = << >>
    /\ cat_out.resources = << >>
    /\ IF cat_out.pak = Len(PakNames)
       THEN cat_out' = [cat_out EXCEPT !.step = "paks_done", !.phase = "generate"]
       ELSE LET pak_name == PakNames[cat_out.pak + 1]
            IN  IF pak_name \notin DOMAIN CollectDisc.paks
                THEN cat_out' = [cat_out EXCEPT !.step = "find_file", !.st.panicked = TRUE]
                ELSE cat_out' = [cat_out EXCEPT !.step = "find_file",
                                               !.phase = "paks",
                                               !.pak = @ + 1,
                                               !.resources = CollectDisc.paks[pak_name]]
    /\ UNCHANGED <<cat_in, cat_op, iso_vars>>

\* one turn of "for res in pak.resources.iter()"
CollectResource ==
    /\ cat_out.phase = "paks"
    /\ ~cat_out.st.panicked
    /\ cat_out.resources # << >>
    /\ cat_out' = [cat_out EXCEPT !.step = "resource",
                                  !.st = AddLookedFor(@, << Head(cat_out.resources) >>,
                                                      PakNames[cat_out.pak]),
                                  !.resources = Tail(@)]
    /\ UNCHANGED <<cat_in, cat_op, iso_vars>>

\* new_assets is filled from the pool after the paks
CollectGenerate ==
    /\ cat_out.phase = "generate"
    /\ ~cat_out.st.panicked
    /\ \E new \in { IF cat_in.collector = "pickup"
                    THEN NewPickupAssets(cat_out.st.found)
                    ELSE NewDoorAssets(cat_out.st.found, DoorTypeIter) } :
          cat_out' = [cat_out EXCEPT !.step = "generate",
                                     !.phase = "new",
                                     !.st.panicked = new.panicked,
                                     !.new_assets = IF new.panicked THEN << >> ELSE new.assets]
    /\ UNCHANGED <<cat_in, cat_op, iso_vars>>

\* one turn of "for res in new_assets"
CollectNewAsset ==
    /\ cat_out.phase = "new"
    /\ ~cat_out.st.panicked
    /\ cat_out.new_assets # << >>
    /\ cat_out' = [cat_out EXCEPT !.step = "new_asset",
                                  !.st = AddLookedFor(@, << Head(cat_out.new_assets) >>,
                                                      "generated"),
                                  !.new_assets = Tail(@)]
    /\ UNCHANGED <<cat_in, cat_op, iso_vars>>

\* assert!(looking_for.is_empty()) and the return of found
CollectAssert ==
    /\ cat_out.phase = "new"
    /\ ~cat_out.st.panicked
    /\ cat_out.new_assets = << >>
    /\ cat_out' = [cat_out EXCEPT !.step = "assert",
                                  !.phase = "done",
                                  !.st = AssertLookingForEmpty(@)]
    /\ UNCHANGED <<cat_in, cat_op, iso_vars>>

CollectNext ==
    \/ CollectExtraAsset
    \/ CollectFindFile
    \/ CollectResource
    \/ CollectGenerate
    \/ CollectNewAsset
    \/ CollectAssert

InitCollect ==
    /\ cat_in \in CollectInputs
    /\ cat_op = "collect"
    /\ cat_out = CollectStart(cat_in)
    /\ IdlePipeline

SpecCollect == InitCollect /\ [][CollectNext]_vars

----------------------------------------------------------------------------
(* patches.rs: fix_artifact_of_truth_requirements *)

\* bit n of layer_flags.flags
FlagBit(flags, n) == (flags \div (2 ^ n)) % 2

\* flags |= 1 << n
FlagSet(flags, n) == IF FlagBit(flags, n) = 1 THEN flags ELSE flags + 2 ^ n

\* flags &= !(1 << n)
FlagCleared(flags, n) == IF FlagBit(flags, n) = 1 THEN flags - 2 ^ n ELSE flags

\* a layer number that forgets the layer of the first artifact kind
truth_layer_number_plain(i, truth_req_layer_id) == i + 1

\* let layer_number = if i == 0 { truth_req_layer_id } else { i + 1 }
truth_layer_number(i, truth_req_layer_id) == IF i = 0 THEN truth_req_layer_id ELSE i + 1

\* for i in 0..12 { .. }: the flags after the turns from i on
RECURSIVE TruthFlags(_, _, _, _)
TruthFlags(flags, i, truth_req_layer_id, pickup_layout) ==
    IF i = 12 THEN flags
    ELSE LET layer_number == truth_layer_number(i, truth_req_layer_id)
             kind == i + 29
             at_pickup_kind == pickup_kind(pickup_layout[63 + 1])
             exists == \E j \in DOMAIN pickup_layout : kind = pickup_kind(pickup_layout[j])
         IN  TruthFlags(IF exists /\ at_pickup_kind # kind
                        THEN FlagCleared(flags, layer_number)
                        ELSE FlagSet(flags, layer_number),
                        i + 1, truth_req_layer_id, pickup_layout)

\* the area carries layer_flags.flags; layer_flags.layer_count is the number
\* of its layers
fix_artifact_of_truth_requirements(ps, area, pickup_layout) ==
    LET truth_req_layer_id == Len(area.layers)
        layered == add_layer(area)
        new_relay_instance_id == NextFresh(ps)
        new_relay == [instance_id |-> new_relay_instance_id.value,
                      property_data |-> [kind |-> "Relay"],
                      connections |-> << Connection("ZERO", "SET_TO_ZERO", 1048869) >>]
        relay == FindObject(layered.layers[1 + 1], 68158836)
    IN  IF truth_req_layer_id # ARTIFACT_OF_TRUTH_REQ_LAYER THEN Panicked(area, ps)
        ELSE IF 63 + 1 \notin DOMAIN pickup_layout THEN Panicked(area, ps)
        ELSE IF relay = 0 THEN Panicked(area, ps)
        ELSE Ok([layered EXCEPT
                    !.flags = TruthFlags(@, 0, truth_req_layer_id, pickup_layout),
                    !.layers[truth_req_layer_id + 1] = Append(@, new_relay),
                    !.layers[1 + 1][relay].connections =
                        SelectSeq(@, LAMBDA c : c.target_object_id # 1048869)
                        \o << Connection("ZERO", "SET_TO_ZERO",
                                         new_relay_instance_id.value) >>],
                new_relay_instance_id.rest,
                << new_relay_instance_id.value >>)

----------------------------------------------------------------------------
(* The Artifact Temple areas and layouts fix_artifact_of_truth_requirements is applied to *)

MaxTruthLayers == 25

\* a pickup layout: the artifacts given first, Missiles up to the length,
\* `temple` at location 63 when the layout is that long
TruthLayout(artifacts, temple, length) ==
    [j \in 1..length |-> IF j = 63 + 1 THEN temple
                         ELSE IF j <= Len(artifacts) THEN artifacts[j]
                         ELSE "Missile"]

TruthArtifacts ==
    { << >>,
      << "ArtifactOfLifegiver" >>,
      << "ArtifactOfWild", "ArtifactOfStrength" >>,
      << "ArtifactOfLifegiver", "ArtifactOfWild", "ArtifactOfWorld", "ArtifactOfSun",
         "ArtifactOfElder", "ArtifactOfSpirit", "ArtifactOfTruth", "ArtifactOfChozo",
         "ArtifactOfWarrior", "ArtifactOfNewborn", "ArtifactOfNature" >> }

TruthInputs ==
    [artifacts : TruthArtifacts,
     temple : {"Missile", "ArtifactOfLifegiver", "ArtifactOfStrength"},
     length : {63, 64, 66},
     layers : (MaxTruthLayers - 2)..MaxTruthLayers,
     flags : {0, 2 ^ 26 - 1, 2 ^ 24 + 2 ^ 5 + 2 ^ 1},
     relay : BOOLEAN]

\* the Artifact Temple: the relay 68158836 of layer 1 is connected to "Relay
\* Show Progress 1"
TruthArea(in) ==
    [layers |-> [l \in 1..in.layers |->
                    IF l = 1 + 1 /\ in.relay
                    THEN << SclyObject(1048869, Other),
                            [instance_id |-> 68158836,
                             property_data |-> [kind |-> "Relay"],
                             connections |-> << Connection("ZERO", "SET_TO_ZERO", 1048869),
                                                Connection("ZERO", "ACTIVATE", 1048870) >>] >>
                    ELSE << >>],
     dependencies |-> [l \in 1..in.layers |-> << >>],
     flags |-> in.flags]

CatFixArtifactOfTruth ==
    /\ cat_op = "init"
    /\ cat_op' = "fix_artifact_of_truth_requirements"
    /\ \E area \in { TruthArea(cat_in) } :
          cat_out' = fix_artifact_of_truth_requirements(
                        FreshStart(<<area>>), area,
                        TruthLayout(cat_in.artifacts, cat_in.temple, cat_in.length))
    /\ UNCHANGED <<cat_in, iso_vars>>

TruthNext == CatFixArtifactOfTruth

InitTruth ==
    /\ cat_in \in TruthInputs
    /\ cat_op = "init"
    /\ cat_out = NoValue
    /\ IdlePipeline

SpecTruth == InitTruth /\ [][TruthNext]_vars

----------------------------------------------------------------------------
(* The paks, weights and draws calculate_door_type is called with *)

MaxDraw == 99

\* the table of a region moved round by n places
RECURSIVE Rotated(_, _)
Rotated(table, n) == IF n = 0 THEN table ELSE Rotated(Tail(table) \o << Head(table) >>, n - 1)

DrawTables ==
    { <<100, 0, 0, 0>>, <<25, 25, 25, 25>>, <<0, 50, 0, 50>>, <<1, 98, 1, 0>>,
      <<10, 20, 30, 40>>, <<40, 40, 10, 0>>, <<200, 100, 28, 28>> }

\* Weights with a different table for every region
DrawWeights(table) ==
    [chozo_ruins |-> table, phendrana_drifts |-> Rotated(table, 1),
     tallon_overworld |-> Rotated(table, 2), phazon_mines |-> Rotated(table, 3),
     magmoor_caverns |-> << table[2], table[1], table[4], table[3] >>]

DrawInputs ==
    [pak_name : SeqToSet(PakNames) \cup {"Metroid5.pak", "Metroid8.pak"},
     table : DrawTables,
     rng : 0..MaxDraw]

CatCalculateDoorType ==
    /\ cat_op = "init"
    /\ cat_op' = "calculate_door_type"
    /\ \E overflow_checks \in BOOLEAN :
          cat_out' = calculate_door_type(cat_in.pak_name, cat_in.rng,
                                         DrawWeights(cat_in.table), overflow_checks)
    /\ UNCHANGED <<cat_in, iso_vars>>

DrawNext == CatCalculateDoorType

InitDraw ==
    /\ cat_in \in DrawInputs
    /\ cat_op = "init"
    /\ cat_out = NoValue
    /\ IdlePipeline

SpecDraw == InitDraw /\ [][DrawNext]_vars

----------------------------------------------------------------------------
(* The layer an artifact switches on and the layer fix_artifact_of_truth_requirements holds back *)

LayerChangeInputs ==
    [pickup_type : SeqToSet(PickupTypeIter),
     flags : {0, 2 ^ 25 - 1},
     skip_hudmenus : BOOLEAN]

\* the flags of the Artifact Temple after fix_artifact_of_truth_requirements
\* for a layout with the given artifacts and a Missile in the Artifact Temple
TempleFlags(artifacts, flags) ==
    LET area == TruthArea([layers |-> ARTIFACT_OF_TRUTH_REQ_LAYER, flags |-> flags,
                           relay |-> TRUE])
    IN  fix_artifact_of_truth_requirements(FreshStart(<<area>>), area,
                                           TruthLayout(artifacts, "Missile", 64)).area.flags

\* the pickup patch of a pickup location that is given the pickup type, and
\* the Artifact Temple fixed for a layout with and without that pickup
CatLayerChange ==
    /\ cat_op = "init"
    /\ cat_op' = "layer_change"
    /\ \E area \in { InputArea(2) },
          pool \in { HudmemoPool([skip_hudmenus |-> cat_in.skip_hudmenus]) } :
       \E done \in { modify_pickups_in_mrea(FreshStart(<<area>>), area, cat_in.pickup_type,
                                            HudmemoLocation, pool,
                                            [BaseConfig EXCEPT
                                                !.skip_hudmenus = cat_in.skip_hudmenus]) } :
          cat_out' = [status |-> done.status,
                      new_layer |-> done.area.layers[Len(done.area.layers)],
                      with |-> TempleFlags(<<cat_in.pickup_type>>, cat_in.flags),
                      without |-> TempleFlags(<< >>, cat_in.flags)]
    /\ UNCHANGED <<cat_in, iso_vars>>

LayerChangeNext == CatLayerChange

InitLayerChange ==
    /\ cat_in \in LayerChangeInputs
    /\ cat_op = "init"
    /\ cat_out = NoValue
    /\ IdlePipeline

SpecLayerChange == InitLayerChange /\ [][LayerChangeNext]_vars

----------------------------------------------------------------------------
(* The configurations the door patches are registered for *)

MaxRegisterSeed == 1

\* the fourteen names the room loop knows, "default", and two it does not
SpecificationNames ==
    { "blue", "purple", "white", "red", "power_bomb", "bomb", "missile", "charge", "super",
      "wavebuster", "icespreader", "flamethrower", "disabled", "ai", "default", "random",
      "boost" }

RegisterInputs ==
    [seed : 0..MaxRegisterSeed,
     plaza : SpecificationNames,
     tower : SpecificationNames,
     patch_vertical_to_blue : BOOLEAN,
     patch_map : BOOLEAN,
     skip_frigate : BOOLEAN,
     skip_impact_crater : BOOLEAN]

RegisterConfig(in) ==
    [BaseConfig EXCEPT
        !.seed = in.seed,
        !.excluded_doors = ExcludedDoors(<< <<"missile">>, <<in.plaza>>, <<in.tower>>,
                                            <<"default", "red">>, <<"random">> >>),
        !.patch_vertical_to_blue = in.patch_vertical_to_blue,
        !.patch_map = in.patch_map,
        !.skip_frigate = in.skip_frigate,
        !.skip_impact_crater = in.skip_impact_crater]

\* the room loop of build_and_run_patches, from door_rng seeded to its end
CatRegisterRooms ==
    /\ cat_op = "init"
    /\ cat_op' = "register"
    /\ \E overflow_checks \in BOOLEAN :
          cat_out' = RegisterRooms([patches |-> << >>,
                                    door_rng |-> seed_from_u64(cat_in.seed),
                                    layout_iterator |-> 0, panicked |-> FALSE],
                                   1, RegisterConfig(cat_in), overflow_checks)
    /\ UNCHANGED <<cat_in, iso_vars>>

RegisterNext == CatRegisterRooms

InitRegister ==
    /\ cat_in \in RegisterInputs
    /\ cat_op = "init"
    /\ cat_out = NoValue
    /\ IdlePipeline

SpecRegister == InitRegister /\ [][RegisterNext]_vars

----------------------------------------------------------------------------
(* patches.rs: patch_starting_pickups *)

\* a u64 as four 16-bit limbs, the least significant first
U64(l0, l1, l2, l3) == <<l0, l1, l2, l3>>

\* starting_items >>= bits, for bits below 16
shr_u64(x, bits) ==
    [i \in 1..4 |->
        (x[i] \div (2 ^ bits))
        + (IF i < 4 THEN (x[i + 1] % (2 ^ bits)) * (2 ^ (16 - bits)) ELSE 0)]

\* a mistaken mask: 1 << bits where (1 << bits) - 1 is meant
fetch_bits_one_bit(starting_items, bits) ==
    [ret |-> ((starting_items[1] \div (2 ^ bits)) % 2) * (2 ^ bits),
     starting_items |-> shr_u64(starting_items, bits)]

\* the closure fetch_bits: the low bits of the closure's own starting_items,
\* which is then shifted right
fetch_bits(starting_items, bits) ==
    [ret |-> starting_items[1] % (2 ^ bits),
     starting_items |-> shr_u64(starting_items, bits)]

\* the fields of a spawn point in the order patch_starting_pickups assigns
\* them, each with the number of bits it fetches
StartingPickupFields ==
    << <<"scan_visor", 1>>, <<"missiles", 8>>, <<"energy_tanks", 4>>, <<"power_bombs", 4>>,
       <<"wave", 1>>, <<"ice", 1>>, <<"plasma", 1>>, <<"charge", 1>>, <<"morph_ball", 1>>,
       <<"bombs", 1>>, <<"spider_ball", 1>>, <<"boost_ball", 1>>, <<"varia_suit", 1>>,
       <<"gravity_suit", 1>>, <<"phazon_suit", 1>>, <<"thermal_visor", 1>>, <<"xray", 1>>,
       <<"space_jump", 1>>, <<"grapple", 1>>, <<"super_missile", 1>>, <<"wavebuster", 1>>,
       <<"ice_spreader", 1>>, <<"flamethrower", 1>> >>

RECURSIVE FetchFields(_, _, _)
\* the assignments to one spawn point from the i-th on
FetchFields(spawn_point, starting_items, i) ==
    IF i > Len(StartingPickupFields) THEN spawn_point
    ELSE LET fetched == fetch_bits(starting_items, StartingPickupFields[i][2])
         IN  FetchFields([spawn_point EXCEPT ![StartingPickupFields[i][1]] = fetched.ret],
                         fetched.starting_items, i + 1)

\* every spawn point of every layer is decoded by a closure that owns a copy
\* of starting_items; the other objects are passed over
patch_starting_pickups(area, starting_items, debug_print) ==
    [result |-> "Ok",
     area |->
        [area EXCEPT !.layers =
            [l \in DOMAIN area.layers |->
                [o \in DOMAIN area.layers[l] |->
                    IF area.layers[l][o].property_data.kind = "SpawnPoint"
                    THEN [area.layers[l][o] EXCEPT
                            !.property_data = FetchFields(@, starting_items, 1)]
                    ELSE area.layers[l][o]]]]]

----------------------------------------------------------------------------
(* The areas and the starting items patch_starting_pickups is run on *)

\* a spawn point as the disc has it, every field of it set to v
SpawnPoint(v) ==
    [f \in { StartingPickupFields[i][1] : i \in DOMAIN StartingPickupFields } \cup {"kind"} |->
        IF f = "kind" THEN "SpawnPoint" ELSE v]

SpawnObject(instance_id, v) == [instance_id |-> instance_id, property_data |-> SpawnPoint(v)]

SpawnAreas ==
    << [layers |-> << <<SpawnObject(1, 0)>> >>],
       [layers |-> << <<SpawnObject(1, 3),
                        [instance_id |-> 2, property_data |-> [kind |-> "Relay"]],
                        SpawnObject(3, 0)>> >>],
       [layers |-> << <<[instance_id |-> 2, property_data |-> [kind |-> "Relay"]]>>,
                      <<SpawnObject(1, 1)>>, << >>, <<SpawnObject(3, 2)>> >>] >>

\* the u64 with bit k set only
OneBit(k) == [i \in 1..4 |-> IF i = (k \div 16) + 1 THEN 2 ^ (k % 16) ELSE 0]

StartingItems ==
    { OneBit(k) : k \in 0..63 }
    \cup { U64(0, 0, 0, 0), U64(65535, 65535, 65535, 65535), U64(65535, 65535, 15, 0),
           U64(511, 0, 0, 0), U64(\h1E01, 0, 0, 0), U64(\hE000, 1, 0, 0),
           U64(\hAAAA, \hAAAA, \hAAAA, \hAAAA), U64(\h5555, \h5555, \h5555, \h5555),
           U64(0, 0, \hFFF0, \hFFFF) }

StartingInputs ==
    [starting_items : {None} \cup { Some(x) : x \in StartingItems },
     area : DOMAIN SpawnAreas]

\* the patch build_and_run_patches registers for the spawn room, run on its area
CatPatchStartingPickups ==
    /\ cat_op = "init"
    /\ cat_op' = "starting_pickups"
    /\ \E given \in { IF cat_in.starting_items # None
                      THEN [starting_items |-> cat_in.starting_items[1], print_sis |-> TRUE]
                      ELSE [starting_items |-> U64(1, 0, 0, 0), print_sis |-> FALSE] } :
          cat_out' = patch_starting_pickups(SpawnAreas[cat_in.area], given.starting_items,
                                            given.print_sis)
    /\ UNCHANGED <<cat_in, iso_vars>>

StartingNext == CatPatchStartingPickups

InitStarting ==
    /\ cat_in \in StartingInputs
    /\ cat_op = "init"
    /\ cat_out = NoValue
    /\ IdlePipeline

SpecStarting == InitStarting /\ [][StartingNext]_vars

----------------------------------------------------------------------------
(* lib.rs: parse_layout_chars_to_ints and parse_layout *)

\* the bytes of b"ABCDEFGHIJKLMNOPQRSTUWVXYZabcdefghijklmnopqrstuwvxyz0123456789-_"
LAYOUT_CHAR_TABLE ==
    << 65, 66, 67, 68, 69, 70, 71, 72, 73, 74, 75, 76, 77, 78, 79, 80,
       81, 82, 83, 84, 85, 87, 86, 88, 89, 90, 97, 98, 99, 100, 101, 102,
       103, 104, 105, 106, 107, 108, 109, 110, 111, 112, 113, 114, 115, 116, 117, 119,
       118, 120, 121, 122, 48, 49, 50, 51, 52, 53, 54, 55, 56, 57, 45, 95 >>

\* iter().position(..): the zero-based index of the first element equal to c
position(s, c) ==
    IF \E i \in DOMAIN s : s[i] = c
    THEN Some((CHOOSE i \in DOMAIN s : s[i] = c /\ \A j \in 1..(i - 1) : s[j] # c) - 1)
    ELSE None

\* A BigUint is the sequence of its bits, the least significant first; bits
\* of value 0 at the end do not change the number
BigBit(x, k) == IF k + 1 <= Len(x) THEN x[k + 1] ELSE 0

\* the number of bits up to the most significant 1
bit_length(x) ==
    IF \A k \in DOMAIN x : x[k] = 0 THEN 0
    ELSE CHOOSE n \in DOMAIN x : x[n] = 1 /\ \A j \in (n + 1)..Len(x) : x[j] = 0

RECURSIVE bits_value(_, _, _)
\* the number the width bits of x from bit offset on spell (width below 31)
bits_value(x, offset, width) ==
    IF width = 0 THEN 0
    ELSE BigBit(x, offset) + 2 * bits_value(x, offset + 1, width - 1)

\* for c in bytes.iter().rev(): sum = sum * 64 + idx: the index of the first
\* byte makes the six lowest bits, that of the second the next six, and so
\* on; the loop ends at the byte that is not in the table and comes last
layout_sum(bytes) ==
    LET found == [i \in DOMAIN bytes |-> position(LAYOUT_CHAR_TABLE, bytes[i])]
        outside == { i \in DOMAIN bytes : found[i] = None }
    IN  IF outside # {}
        THEN [invalid |-> Some(bytes[CHOOSE i \in outside : \A j \in outside : j <= i]),
              sum |-> << >>]
        ELSE [invalid |-> None,
              sum |-> [k \in 1..(6 * Len(bytes)) |->
                          (found[((k - 1) \div 6) + 1][1] \div (2 ^ ((k - 1) % 6))) % 2]]

\* sum.to_str_radix(2): the digits, the most significant first, "0" for zero
to_str_radix_2(x) ==
    LET n == bit_length(x)
    IN  IF n = 0 THEN <<0>> ELSE [k \in 1..n |-> x[n + 1 - k]]

\* the swaps bits.swap(i * 2 + 1, len - i * 2 - 1) for i in 0..(bits.len() / 4),
\* len = bits.len() - bits.len() % 2: no index is in two of them, so the
\* digit at the zero-based index j changes places with the one at len - j
reverse_odd_bits(bits) ==
    LET len == Len(bits) - (Len(bits) % 2)
        last == 2 * (Len(bits) \div 4) - 1
        swapped(j) == \/ (j % 2 = 1 /\ j <= last)
                      \/ ((len - j) % 2 = 1 /\ 1 <= len - j /\ len - j <= last)
    IN  [k \in 1..Len(bits) |-> IF swapped(k - 1) THEN bits[len - (k - 1) + 1] ELSE bits[k]]

\* BigUint::parse_bytes(&bits, 2)
parse_bytes_2(bits) == [k \in 1..Len(bits) |-> bits[Len(bits) + 1 - k]]

\* (sum & (checksum_bitmask << layout_data_size)) >> layout_data_size
embedded_checksum(sum, layout_data_size, checksum_size) ==
    bits_value(sum, layout_data_size, checksum_size)

\* sum -= checksum
layout_data(sum, layout_data_size, checksum_size) ==
    [k \in 1..Len(sum) |->
        IF layout_data_size < k /\ k <= layout_data_size + checksum_size THEN 0 ELSE sum[k]]

RECURSIVE chunk_sum(_, _, _, _)
\* the chunks of checksum_size bits from the one at lo to the one before hi,
\* added up under the mask; the order of the additions does not matter
chunk_sum(sum, checksum_size, lo, hi) ==
    IF hi <= lo THEN 0
    ELSE IF hi = lo + 1 THEN bits_value(sum, lo * checksum_size, checksum_size)
    ELSE (chunk_sum(sum, checksum_size, lo, (lo + hi) \div 2)
          + chunk_sum(sum, checksum_size, (lo + hi) \div 2, hi)) % (2 ^ checksum_size)

\* while sum > 0: computed_checksum = (computed_checksum + remainder) &
\* checksum_bitmask; sum >>= checksum_size
computed_checksum(sum, checksum_size) ==
    chunk_sum(sum, checksum_size, 0, (bit_length(sum) + checksum_size - 1) \div checksum_size)

\* the limbs of 20 bits of a BigUint, the most significant first
Limbs(x) ==
    LET n == (Len(x) + 19) \div 20
    IN  [m \in 1..n |-> bits_value(x, 20 * (n - m), 20)]

RECURSIVE div_rem(_, _, _, _, _)
\* sum.div_rem(&denum.into()) on limbs, from the i-th limb on
div_rem(limbs, denum, i, remainder, quotient) ==
    IF i > Len(limbs) THEN [quotient |-> quotient, remainder |-> remainder]
    ELSE LET cur == remainder * (2 ^ 20) + limbs[i]
         IN  div_rem(limbs, denum, i + 1, cur % denum, Append(quotient, cur \div denum))

RECURSIVE mixed_radix(_, _, _, _)
\* for denum in is: res.push(remainder); sum = quotient, for the denominators
\* from the one after lo to the one at hi: the first half of them, then the
\* second half on what the first half leaves
mixed_radix(sum, is, lo, hi) ==
    IF hi <= lo THEN [res |-> << >>, sum |-> sum]
    ELSE IF hi = lo + 1
    THEN LET qr == div_rem(sum, is[hi], 1, 0, << >>)
         IN  [res |-> <<qr.remainder>>, sum |-> qr.quotient]
    ELSE LET first == mixed_radix(sum, is, lo, (lo + hi) \div 2)
             second == mixed_radix(first.sum, is, (lo + hi) \div 2, hi)
         IN  [res |-> first.res \o second.res, sum |-> second.sum]

\* the sum of the bytes after the odd bits are put in reverse order
decoded_sum(sum) == parse_bytes_2(reverse_odd_bits(to_str_radix_2(sum)))

parse_layout_chars_to_ints(bytes, layout_data_size, checksum_size, is) ==
    LET read == layout_sum(bytes)
        sum == decoded_sum(read.sum)
        checksum == embedded_checksum(sum, layout_data_size, checksum_size)
        data == layout_data(sum, layout_data_size, checksum_size)
        digits == mixed_radix(Limbs(data), is, 0, Len(is))
        Failed(err) == [panicked |-> FALSE, result |-> "Err", err |-> err, value |-> << >>]
    IN  IF read.invalid # None
        THEN Failed(<<"Layout contains invalid character '{}'.", read.invalid[1]>>)
        ELSE IF checksum # computed_checksum(data, checksum_size)
        THEN Failed(<<"Layout checksum failed.">>)
        ELSE IF \E k \in DOMAIN digits.sum : digits.sum[k] # 0
        THEN \* assert!(sum == 0u8.into())
             [panicked |-> TRUE, result |-> "None", err |-> << >>, value |-> << >>]
        ELSE [panicked |-> FALSE, result |-> "Ok", err |-> << >>,
              value |-> [k \in 1..Len(digits.res) |-> digits.res[Len(digits.res) + 1 - k]]]

\* b"qzoCAr2fwehJmRjM"
DefaultElevatorBytes ==
    <<113, 122, 111, 67, 65, 114, 50, 102, 119, 101, 104, 74, 109, 82, 106, 77>>

\* the two halves text is cut into at the first '.', the whole text and the
\* default elevators when there is none
SplitAtDot(text) ==
    LET n == position(text, 46)
    IN  IF n # None
        THEN [elevator_bytes |-> SubSeq(text, 1, n[1]),
              pickup_bytes |-> SubSeq(text, n[1] + 2, Len(text))]
        ELSE [elevator_bytes |-> DefaultElevatorBytes, pickup_bytes |-> text]

\* pickup_bytes.starts_with(b"!")
StripBang(pickup_bytes) ==
    IF Len(pickup_bytes) >= 1 /\ pickup_bytes[1] = 33
    THEN [pickup_bytes |-> Tail(pickup_bytes), has_scan_visor |-> TRUE]
    ELSE [pickup_bytes |-> pickup_bytes, has_scan_visor |-> FALSE]

\* text is the sequence of the code points of the &str; the seed hashed out
\* of the two parts with Sha512 is left out of the value
parse_layout(text) ==
    LET halves == SplitAtDot(text)
        elevator_bytes == halves.elevator_bytes
        stripped == StripBang(halves.pickup_bytes)
        pickup_bytes == stripped.pickup_bytes
        has_scan_visor == stripped.has_scan_visor
        pickup_layout ==
            parse_layout_chars_to_ints(pickup_bytes,
                IF has_scan_visor THEN 521 ELSE 517,
                IF has_scan_visor THEN 1 ELSE 5,
                [k \in 1..100 |-> IF has_scan_visor THEN 37 ELSE 36])
        elevator_layout ==
            parse_layout_chars_to_ints(elevator_bytes, 91, 5, <<21>> \o [k \in 1..20 |-> 20])
        Failed(err) == [panicked |-> FALSE, result |-> "Err", err |-> err, value |-> << >>]
    IN  IF \E k \in DOMAIN text : text[k] >= 128
        THEN Failed(<<"Layout string contains non-ascii characters.">>)
        ELSE IF Len(elevator_bytes) # 16
        THEN Failed(<<"The section of the layout string before the '.' should be 16 characters">>)
        ELSE IF Len(pickup_bytes) # 87
        THEN Failed(<<"Layout string should be exactly 87 characters">>)
        ELSE IF pickup_layout.panicked THEN pickup_layout
        ELSE IF pickup_layout.result = "Err"
        THEN Failed(<<"Parsing pickup layout: {}">> \o pickup_layout.err)
        ELSE IF elevator_layout.panicked THEN elevator_layout
        ELSE IF elevator_layout.result = "Err"
        THEN Failed(<<"Parsing elevator layout: {}">> \o elevator_layout.err)
        ELSE [panicked |-> FALSE, result |-> "Ok", err |-> << >>,
              value |-> <<pickup_layout.value, elevator_layout.value>>]

----------------------------------------------------------------------------
(* The layout strings parse_layout is given *)

\* n times the byte c
Repeat(c, n) == [k \in 1..n |-> c]

\* what stands before the pickups: nothing, or sixteen characters and a '.'
\* (all 'A', a wrong checksum, a value above 21 * 20^20), fifteen or
\* seventeen characters, or a character that is not in the table
ElevatorTexts ==
    << << >>,
       Repeat(65, 16) \o <<46>>,
       Repeat(65, 15) \o <<66, 46>>,
       <<72, 95>> \o Repeat(65, 12) \o <<95, 66, 46>>,
       Repeat(65, 15) \o <<46>>,
       Repeat(65, 17) \o <<46>>,
       Repeat(65, 8) \o <<33>> \o Repeat(65, 7) \o <<46>> >>

LayoutShapes == { "whole", "non_ascii", "short", "long", "other_char" }

LayoutInputs ==
    [elevator : DOMAIN ElevatorTexts,
     bang : BOOLEAN,
     first : { 65, 118, 70 },
     second : { 65, 95 },
     last_but_one : { 65, 95 },
     last : { 65, 66, 68, 88, 114 },
     shape : LayoutShapes]

\* the pickup part: 87 characters, 'A' but for the two first and the two
\* last; or one less, or one more, or with a 'é' or a '.' in the middle
LayoutText(in) ==
    LET middle ==
            CASE in.shape = "whole" -> Repeat(65, 83)
              [] in.shape = "non_ascii" -> Repeat(65, 41) \o <<233>> \o Repeat(65, 41)
              [] in.shape = "short" -> Repeat(65, 82)
              [] in.shape = "long" -> Repeat(65, 84)
              [] in.shape = "other_char" -> Repeat(65, 41) \o <<46>> \o Repeat(65, 41)
    IN  ElevatorTexts[in.elevator] \o (IF in.bang THEN <<33>> ELSE << >>)
        \o <<in.first, in.second>> \o middle \o <<in.last_but_one, in.last>>

CatParseLayout ==
    /\ cat_op = "init"
    /\ cat_op' = "parse_layout"
    /\ cat_out' = parse_layout(LayoutText(cat_in))
    /\ UNCHANGED <<cat_in, iso_vars>>

LayoutNext == CatParseLayout

InitLayout ==
    /\ cat_in \in LayoutInputs
    /\ cat_op = "init"
    /\ cat_out = NoValue
    /\ IdlePipeline

SpecLayout == InitLayout /\ [][LayoutNext]_vars

----------------------------------------------------------------------------
(* patches.rs: everything build_and_run_patches registers and patch_iso adds *)

\* a patch registered for a resource that resource_info! names
NamedPatch(kind, resource, callback) ==
    [kind |-> kind, target |-> resource, callback |-> callback]

FMV_NAMES ==
    << "Video/attract0.thp", "Video/attract1.thp", "Video/attract2.thp", "Video/attract3.thp",
       "Video/attract4.thp", "Video/attract5.thp", "Video/attract6.thp", "Video/attract7.thp",
       "Video/attract8.thp", "Video/attract9.thp" >>

MUSIC_FILE_NAME == << "Audio/rui_flaaghraR.dsp", "Audio/rui_flaaghraL.dsp" >>

SELECT_GAMES_FMVS ==
    << "Video/02_start_fileselect_A.thp", "Video/02_start_fileselect_B.thp",
       "Video/02_start_fileselect_C.thp", "Video/04_fileselect_playgame_A.thp",
       "Video/04_fileselect_playgame_B.thp", "Video/04_fileselect_playgame_C.thp" >>

\* the file patches registered between PrimePatcher::new and the room loop
RegisterFilePatches(cfg) ==
    (IF cfg.is_item_randomized # Some(TRUE) /\ ~cfg.keep_fmvs
     THEN << FilePatch("opening.bnr", "patch_bnr") >>
          \o [i \in DOMAIN FMV_NAMES |-> FilePatch(FMV_NAMES[i], "attract_mode.thp")]
     ELSE << >>)
    \o (IF cfg.is_item_randomized # Some(TRUE)
        THEN (IF cfg.flaahgra_music_files # None
              THEN [i \in DOMAIN MUSIC_FILE_NAME |->
                        FilePatch(MUSIC_FILE_NAME[i], "flaahgra_music_files")]
              ELSE << >>)
             \o [i \in DOMAIN SELECT_GAMES_FMVS |->
                    FilePatch(SELECT_GAMES_FMVS[i], "select_game_fmv")]
        ELSE << >>)

\* the pak of every elevator of elevators::ELEVATORS, "" for one that is a
\* destination only
ELEVATORS ==
    << [name |-> "Chozo Ruins West (Main Plaza)", pak_name |-> "Metroid2.pak"],
       [name |-> "Tallon Overworld North (Tallon Canyon)", pak_name |-> "Metroid4.pak"],
       [name |-> "Credits", pak_name |-> ""] >>

\* make_elevators_patch: one area patch for every elevator that has a pak
RegisterElevators ==
    [i \in 1..Cardinality({ j \in DOMAIN ELEVATORS : ELEVATORS[j].pak_name # "" }) |->
        NamedPatch("scly",
                   SelectSeq(ELEVATORS, LAMBDA elv : elv.pak_name # "")[i].name,
                   "make_elevators_patch")]

ARTIFACT_TOTEM_SCAN_STRGS ==
    << "07_Over_Stonehenge Totem 5.STRG", "07_Over_Stonehenge Totem 4.STRG",
       "07_Over_Stonehenge Totem 10.STRG", "07_Over_Stonehenge Totem 9.STRG",
       "07_Over_Stonehenge Totem 3.STRG", "07_Over_Stonehenge Totem 11.STRG",
       "07_Over_Stonehenge Totem 1.STRG", "07_Over_Stonehenge Totem 7.STRG",
       "07_Over_Stonehenge Totem 6.STRG", "07_Over_Stonehenge Totem 12.STRG",
       "07_Over_Stonehenge Totem 8.STRG", "07_Over_Stonehenge Totem 2.STRG" >>

\* the block "if !config.is_item_randomized.unwrap_or(false)" after the room
\* loop: the patches it registers and the file it adds to the disc
RegisterAfterRooms(cfg) ==
    IF cfg.is_item_randomized = Some(TRUE) THEN [patches |-> << >>, added |-> << >>]
    ELSE
    [added |-> << "rel_config.bin" >>,
     patches |->
        << FilePatch("default.dol", "patch_dol") >>
        \o (IF cfg.skip_frigate
            THEN << FilePatch("Metroid1.pak", "empty_frigate_pak") >>
            ELSE << NamedPatch("scly", "01_intro_hanger.MREA", "patch_frigate_teleporter") >>)
        \o << NamedPatch("scly", "frigate_spawn_room", "patch_starting_pickups"),
              NamedPatch("scly", "spawn_room", "patch_starting_pickups") >>
        \o [i \in DOMAIN ARTIFACT_TOTEM_SCAN_STRGS |->
                NamedPatch("resource", ARTIFACT_TOTEM_SCAN_STRGS[i],
                           "patch_artifact_totem_scan_strg")]
        \o << NamedPatch("resource", "STRG_Main.STRG", "patch_main_strg"),
              NamedPatch("resource", "FRME_NewFileSelect.FRME", "patch_main_menu"),
              NamedPatch("resource", "STRG_Credits.STRG", "patch_credits"),
              NamedPatch("resource", "!MinesWorld_Master.SAVW",
                         "patch_mines_savw_for_phazon_suit_scan"),
              NamedPatch("scly", "07_stonehenge.MREA", "fix_artifact_of_truth_requirements"),
              NamedPatch("scly", "07_stonehenge.MREA", "patch_artifact_hint_availability"),
              NamedPatch("resource", "TXTR_SaveBanner.TXTR", "patch_save_banner_txtr"),
              NamedPatch("resource", "FRME_BallHud.FRME", "patch_morphball_hud") >>
        \o RegisterElevators
        \o << NamedPatch("scly", "03_mines.MREA", "make_elite_research_fight_prereq_patches"),
              NamedPatch("scly", "07_mines_electric.MREA",
                         "make_elite_research_fight_prereq_patches"),
              NamedPatch("scly", "22_Flaahgra.MREA",
                         "patch_sunchamber_prevent_wild_before_flaahgra"),
              NamedPatch("scly", "0v_connect_tunnel.MREA",
                         "patch_sun_tower_prevent_wild_before_flaahgra"),
              NamedPatch("scly", "00j_over_hall.MREA",
                         "patch_temple_security_station_cutscene_trigger"),
              NamedPatch("scly", "01_ice_plaza.MREA",
                         "patch_ridley_phendrana_shorelines_cinematic"),
              NamedPatch("scly", "08b_under_intro_ventshaft.MREA",
                         "patch_main_ventilation_shaft_section_b_door"),
              NamedPatch("scly", "10_ice_research_a.MREA", "patch_research_lab_hydra_barrier"),
              NamedPatch("scly", "13_ice_vault.MREA",
                         "patch_research_lab_aether_exploding_wall"),
              NamedPatch("scly", "11_ice_observatory.MREA",
                         "patch_observatory_2nd_pass_solvablility"),
              NamedPatch("scly", "02_mines_shotemup.MREA",
                         "patch_mines_security_station_soft_lock"),
              NamedPatch("scly", "18_ice_gravity_chamber.MREA",
                         "patch_gravity_chamber_stalactite_grapple_point") >>
        \o (IF cfg.version = "Ntsc0_02"
            THEN << NamedPatch("scly", "01_mines_mainplaza.MREA",
                               "patch_main_quarry_door_lock_0_02"),
                    NamedPatch("scly", "13_over_burningeffigy.MREA",
                               "patch_geothermal_core_door_lock_0_02"),
                    NamedPatch("scly", "19_hive_totem.MREA",
                               "patch_hive_totem_boss_trigger_0_02"),
                    NamedPatch("scly", "05_ice_shorelines.MREA",
                               "patch_ruined_courtyard_thermal_conduits_0_02") >>
            ELSE << >>)
        \o (IF cfg.version = "Pal"
            THEN << NamedPatch("scly", "04_mines_pillar.MREA",
                               "patch_ore_processing_destructible_rock_pal"),
                    NamedPatch("scly", "13_over_burningeffigy.MREA",
                               "patch_geothermal_core_destructible_rock_pal"),
                    NamedPatch("scly", "01_mines_mainplaza.MREA",
                               "patch_main_quarry_door_lock_pal") >>
            ELSE << >>)
        \o (IF cfg.starting_room # "Landing Site"
            THEN << NamedPatch("scly", "01_over_mainplaza.MREA",
                               "patch_landing_site_cutscene_triggers") >>
            ELSE << >>)
        \o (IF cfg.skip_impact_crater
            THEN << NamedPatch("scly", "01_endcinema.MREA",
                               "patch_ending_scene_straight_to_credits") >>
            ELSE << >>)]

\* a mistaken block: the locked door of the Main Plaza is patched whether the
\* items are randomized already or not
RegisterVaultLedgeAlways(cfg, overflow_checks) ==
    IF ~cfg.enable_vault_ledge_door THEN [panicked |-> FALSE, patches |-> << >>]
    ELSE [panicked |-> vault_ledge_door_type(cfg, overflow_checks).panicked,
          patches |->
            << NamedPatch("scly", "01_mainplaza.MREA",
                          "make_main_plaza_locked_door_two_ways") >>
            \o (IF cfg.patch_map
                THEN << NamedPatch("resource", "01_mainplaza.MAPA",
                                   "patch_main_plaza_locked_door_map_icon") >>
                ELSE << >>)]

\* the block "if config.enable_vault_ledge_door"
RegisterVaultLedge(cfg, overflow_checks) ==
    IF ~cfg.enable_vault_ledge_door THEN [panicked |-> FALSE, patches |-> << >>]
    ELSE [panicked |-> vault_ledge_door_type(cfg, overflow_checks).panicked,
          patches |->
            (IF cfg.is_item_randomized # Some(TRUE)
             THEN << NamedPatch("scly", "01_mainplaza.MREA",
                                "make_main_plaza_locked_door_two_ways") >>
             ELSE << >>)
            \o (IF cfg.patch_map
                THEN << NamedPatch("resource", "01_mainplaza.MAPA",
                                   "patch_main_plaza_locked_door_map_icon") >>
                ELSE << >>)]

\* build_and_run_patches from PrimePatcher::new to the call of patcher.run:
\* the patches in the order they are registered and the files added
Registered(cfg, overflow_checks) ==
    LET rooms == RegisterRooms([patches |-> RegisterFilePatches(cfg),
                                door_rng |-> seed_from_u64(cfg.seed),
                                layout_iterator |-> 0, panicked |-> FALSE],
                               1, cfg, overflow_checks)
        rest == RegisterAfterRooms(cfg)
        vault == RegisterVaultLedge(cfg, overflow_checks)
    IN  [panicked |-> rooms.panicked \/ vault.panicked,
         patches |-> rooms.patches \o rest.patches \o vault.patches,
         added |-> rest.added]

\* patch_iso after build_and_run_patches has returned Ok: the files it adds
AddedByPatchIso(cfg) ==
    << "randomprime.txt", "mpdr.txt" >>
    \o (IF /\ cfg.is_item_randomized # Some(TRUE)
           /\ cfg.version # "Ntsc0_01"
           /\ cfg.version # "Pal"
        THEN << "patches.rel" >> ELSE << >>)

----------------------------------------------------------------------------
(* The discs and configurations the patches are registered for *)

MaxFrameSeed == 1

FrameInputs ==
    [randomprime_txt : BOOLEAN,
     version : { "Ntsc0_00", "Ntsc0_02", "Pal" },
     seed : 0..MaxFrameSeed,
     plaza : { "default", "missile" },
     keep_fmvs : BOOLEAN,
     flaahgra_music_files : BOOLEAN,
     skip_frigate : BOOLEAN,
     skip_impact_crater : BOOLEAN,
     starting_room : { "Landing Site", "Main Plaza" },
     enable_vault_ledge_door : BOOLEAN,
     patch_map : BOOLEAN]

\* the configuration as patch_iso hands it to build_and_run_patches
FrameConfig(in) ==
    [BaseConfig EXCEPT
        !.is_item_randomized = Some(in.randomprime_txt),
        !.version = in.version,
        !.pal_override = TRUE,
        !.seed = in.seed,
        !.excluded_doors = ExcludedDoors(<< <<"blue">>, <<in.plaza>>, <<"random">>,
                                            <<"default", "red">>, <<"default">> >>),
        !.keep_fmvs = in.keep_fmvs,
        !.skip_frigate = in.skip_frigate,
        !.skip_impact_crater = in.skip_impact_crater,
        !.patch_map = in.patch_map]
    @@ [flaahgra_music_files |-> IF in.flaahgra_music_files THEN Some("dsp") ELSE None,
        starting_room |-> in.starting_room,
        enable_vault_ledge_door |-> in.enable_vault_ledge_door]

\* a run of patch_iso on a disc that has randomprime.txt or not, as far as
\* the patches registered and the files added
CatRegisterAll ==
    /\ cat_op = "init"
    /\ cat_op' = "registered"
    /\ \E overflow_checks \in BOOLEAN :
         \E done \in { Registered(FrameConfig(cat_in), overflow_checks) } :
            cat_out' = [panicked |-> done.panicked,
                        patches |-> done.patches,
                        added |-> IF done.panicked THEN done.added
                                  ELSE done.added \o AddedByPatchIso(FrameConfig(cat_in))]
    /\ UNCHANGED <<cat_in, iso_vars>>

FrameNext == CatRegisterAll

InitFrame ==
    /\ cat_in \in FrameInputs
    /\ cat_op = "init"
    /\ cat_out = NoValue
    /\ IdlePipeline

SpecFrame == InitFrame /\ [][FrameNext]_vars

----------------------------------------------------------------------------
(* The properties of the collectors, the patcher and patch_iso *)

\* nothing has been registered, run, added to the disc or written
Untouched ==
    /\ patcher = << >>
    /\ applied = << >>
    /\ allocated = << >>
    /\ gc_disc.added = << >>
    /\ areas = InputAreas
    /\ output_iso = << >>

\* the keys the collectors generate when the resources they copy are there
GeneratedDoorKeys ==
    { <<shield_cmdl(dt), "CMDL">> :
        dt \in { d \in DoorType : GeU32(shield_cmdl(d), CUSTOM_ID_START) } }

GeneratedPickupKeys == SeqToSet(NewPickupAssets(<< >>).assets)

\* the declared keys that are neither bundled nor generated
NeededFromPaks ==
    (DoorLookingFor \ (SeqToSet(extra_assets_doors) \cup GeneratedDoorKeys))
    \cup (PickupLookingFor \ (SeqToSet(extra_assets) \cup GeneratedPickupKeys))

\* the declared keys that are neither bundled, nor in a pak, nor generated
UnresolvedKeys ==
    NeededFromPaks \ UNION { SeqToSet(gc_disc.paks[pak]) : pak \in DOMAIN gc_disc.paks }

\* the collectors have returned their pools to build_and_run_patches
Collected ==
    \/ pc \in {"register", "run", "output", "write"}
    \/ DOMAIN door_resources # {}
    \/ DOMAIN pickup_resources # {}

\* C1: once the collectors have returned, the door pool has an entry for
\* every dependency of every DoorType and the pickup pool one for every
\* dependency and hudmemo STRG of every PickupType; on a disc where a declared
\* key is neither bundled, nor in a pak, nor generated, the collectors never
\* return: the run ends inside build_and_run_patches with no patch registered
\* or applied, no file added and nothing written
C1_PoolsCompleteOrAbort ==
    /\ Collected =>
         /\ DoorLookingFor \subseteq DOMAIN door_resources
         /\ PickupLookingFor \subseteq DOMAIN pickup_resources
    /\ UnresolvedKeys # {} =>
         /\ ~Collected
         /\ pc \in {"patch_iso", "build_and_run_patches", "done"}
         /\ pc = "done" => (result \in {"Err", "panic"} /\ Untouched)

\* a disc without the Purple force field texture: the collection has aborted
C1_AbortedOnMissingTexture ==
    /\ pc = "done"
    /\ result = "panic"
    /\ config.version = "Ntsc0_00"
    /\ UnresolvedKeys = { <<forcefield_txtr("Purple"), "TXTR">> }
    /\ Untouched

RoomRank(patch) ==
    CASE patch.callback = "remove_objects"         -> 0
      [] patch.callback = "modify_pickups_in_mrea" -> patch.args.k
      [] OTHER                                     -> 10

\* the pickup patches of room r that have run
PickupsApplied(r) ==
    { a \in DOMAIN applied :
        /\ patcher[applied[a]].callback = "modify_pickups_in_mrea"
        /\ patcher[applied[a]].room = r }

\* C3: of two callbacks on the same target the one registered first has run
\* first; in every room the removal patch has run before the pickup patches,
\* these in pickup-location order, and the door patches after them; and while
\* no callback has failed every area shows the effect of all the callbacks
\* that ran on it: one layer per pickup patch, the removed objects gone
C3_RegistrationOrder ==
    /\ \A a, b \in DOMAIN applied :
         (a < b /\ patcher[applied[a]].target = patcher[applied[b]].target) =>
            /\ applied[a] < applied[b]
            /\ RoomRank(patcher[applied[a]]) <= RoomRank(patcher[applied[b]])
    /\ result \notin {"Err", "panic"} =>
         \A r \in Rooms :
            /\ Len(areas[r].layers) = 2 + Cardinality(PickupsApplied(r))
            /\ \A a \in DOMAIN applied :
                 (patcher[applied[a]].callback = "remove_objects"
                    /\ patcher[applied[a]].room = r) =>
                    \A otr \in SeqToSet(PICKUP_LOCATIONS[r].objects_to_remove) :
                        \A id \in otr.instance_ids :
                            FindObject(areas[r].layers[otr.layer + 1], id) = 0

\* Main Plaza: the removal patch, two pickup patches and the door patch have run
C3_FourPatchesOnMainPlaza ==
    /\ result = "Ok"
    /\ Cardinality({ a \in DOMAIN applied :
                       patcher[applied[a]].target = Target("Metroid2.pak",
                                                          <<Id(\h0D5C, \h0002), "MREA">>) }) = 4

MarkerFiles == {"randomprime.txt", "mpdr.txt"}

OutputErrors ==
    { "Failed to resize output file", "Failed to prepare output file for writing",
      "Error writing output file" }

\* build_and_run_patches has returned Ok to patch_iso
BuildReturnedOk ==
    /\ \/ pc \in {"output", "write"}
       \/ pc = "done" /\ result = "Ok"
       \/ pc = "done" /\ result = "Err" /\ err_msg \in OutputErrors
    /\ room_idx = Len(PICKUP_LOCATIONS)
    /\ run_pos = Len(run_order)
    /\ Len(applied) = Len(patcher)

\* the banner callback has run with a game name that does not fit
BannerCallbackFailed ==
    /\ patch_bnr(config) = "Err"
    /\ \E a \in DOMAIN applied : patcher[applied[a]].callback = "patch_bnr"

\* C4: the output file is touched and the marker files are added only once
\* build_and_run_patches has returned Ok; when the validation or a callback
\* has returned Err, patch_iso has returned that Err, nothing has been written
\* to the output and no marker file has been added
C4_OutputOnlyAfterBuildOk ==
    /\ (output_iso # << >> \/ MarkerFiles \cap SeqToSet(gc_disc.added) # {}) => BuildReturnedOk
    /\ (result = "Err" /\ err_msg \notin OutputErrors) =>
         /\ pc = "done"
         /\ output_iso = << >>
         /\ MarkerFiles \cap SeqToSet(gc_disc.added) = {}
    /\ BannerCallbackFailed =>
         /\ pc = "done"
         /\ result = "Err"
         /\ err_msg = "patch_bnr"

\* a run that got through: the markers were added, the file sized and written
C4_WrittenAfterBuild ==
    /\ result = "Ok"
    /\ output_iso = << "set_len", "write" >>
    /\ MarkerFiles \subseteq SeqToSet(gc_disc.added)
    /\ Len(applied) > 5

ValidationErrors ==
    { "The input ISO doesn't appear to be NTSC-US or PAL Metroid Prime.",
      "The input ISO has already been randomized using MPDR.",
      "The NTSC 0-01 and PAL versions of Metroid Prime are not current supported." }

\* the error patch_iso owes the input disc, None when it owes none
ExpectedValidationError ==
    LET header == gc_disc.header
        key == <<header.game_identifier, header.disc_id, header.version>>
    IN  IF key \notin { <<"GM8E01", 0, 0>>, <<"GM8E01", 0, 1>>, <<"GM8E01", 0, 2>>,
                        <<"GM8P01", 0, 0>> }
        THEN Some("The input ISO doesn't appear to be NTSC-US or PAL Metroid Prime.")
        ELSE IF "mpdr.txt" \in gc_disc.files /\ "mpdr.txt" \notin SeqToSet(gc_disc.added)
        THEN Some("The input ISO has already been randomized using MPDR.")
        ELSE IF key = <<"GM8E01", 0, 1>> \/ (key = <<"GM8P01", 0, 0>> /\ ~config.pal_override)
        THEN Some("The NTSC 0-01 and PAL versions of Metroid Prime are not current supported.")
        ELSE None

\* C5: once patch_iso has checked its input, a disc with a wrong header, an
\* already patched disc, an NTSC 0-01 disc and a PAL disc without pal_override
\* have each made it return its Err string with build_and_run_patches not
\* called and nothing modified; with every other disc it has gone on to
\* build_and_run_patches
C5_ValidationErrors ==
    pc # "patch_iso" =>
        IF ExpectedValidationError # None
        THEN /\ pc = "done"
             /\ result = "Err"
             /\ err_msg = ExpectedValidationError[1]
             /\ Untouched
             /\ ~Collected
        ELSE /\ ~(result = "Err" /\ err_msg \in ValidationErrors)
             /\ pc = "build_and_run_patches" \/ Collected \/ (pc = "done" /\ result = "panic")

\* an already patched NTSC 0-00 disc has been refused
C5_RefusedAlreadyPatched ==
    /\ pc = "done"
    /\ result = "Err"
    /\ err_msg = "The input ISO has already been randomized using MPDR."
    /\ gc_disc.header = [game_identifier |-> "GM8E01", disc_id |-> 0, version |-> 0]
    /\ Untouched

----------------------------------------------------------------------------
(* The properties of the door patches *)

\* the door locations of room r that have a dock number
DockDoors(r) ==
    { d \in SeqToSet(PICKUP_LOCATIONS[r].door_locations) : d.dock_number # None }

\* the entry of excluded_doors for a door location
Override(r, d) ==
    config.excluded_doors[Level(PICKUP_LOCATIONS[r].pak)][PICKUP_LOCATIONS[r].name]
                         [d.dock_number[1] + 1]

\* the damageable trigger of a door location as it is in the area now
DoorForce(r, d) ==
    LET layer == areas[r].layers[1]
    IN  layer[FindObject(layer, d.door_force_location.instance_id)].property_data

IsVertical(r, d) == is_vertical_door(PICKUP_LOCATIONS[r].room_id, d.dock_number[1])

\* the room loop passes over the rooms of this room's pak
SkippedRoom(r) ==
    \/ (Level(PICKUP_LOCATIONS[r].pak) = 0 /\ config.skip_frigate)
    \/ (Level(PICKUP_LOCATIONS[r].pak) = 6 /\ config.skip_impact_crater)

ChozoRooms == { r \in Rooms : PICKUP_LOCATIONS[r].pak = "Metroid2.pak" }

\* C6: with Chozo Ruins weights that do not sum to 100 the room loop never
\* gets past the first Chozo room, whose door has calculate_door_type called
\* for it: the call aborts and no door type comes back
C6_BadSumIsFatal ==
    SumSeq(config.door_weights.chozo_ruins) # 100 =>
        /\ room_idx < 2
        /\ result # "Ok"
        /\ \A i \in DOMAIN patcher : patcher[i].target.file # "Metroid2.pak"

C8_MissileOverrideExact ==
    result = "Ok" =>
        \A r \in Rooms : \A d \in DockDoors(r) :
            Override(r, d) = "missile" =>
                DoorForce(r, d).damage_vulnerability = vulnerability("Missile")

\* C8, amended: after patching, the trigger of a door location whose override
\* is "missile", in a pak the room loop does not skip, and that is not a
\* vertical door turned blue by patch_vertical_to_blue, has Missile's
\* vulnerability in every field, except that power_bomb is 1 when
\* powerbomb_lockpick is set; this for every weight table and seed
C8_MissileOverrideUpToLockpick ==
    result = "Ok" =>
        \A r \in Rooms : \A d \in DockDoors(r) :
            (/\ Override(r, d) = "missile"
             /\ ~SkippedRoom(r)
             /\ ~(IsVertical(r, d) /\ config.patch_vertical_to_blue)) =>
                DoorForce(r, d).damage_vulnerability =
                    IF config.powerbomb_lockpick
                    THEN [vulnerability("Missile") EXCEPT !.power_bomb = 1]
                    ELSE vulnerability("Missile")

\* the vertical Tower Chamber door, override "missile", weights 25 each
C8_TowerDoorIsMissile ==
    /\ result = "Ok"
    /\ config.excluded_doors[1]["Tower Chamber"] = <<"missile">>
    /\ config.door_weights.chozo_ruins = <<25, 25, 25, 25>>
    /\ ~config.patch_vertical_to_blue
    /\ ~config.powerbomb_lockpick
    /\ \E d \in DockDoors(3) :
         /\ DoorForce(3, d).damage_vulnerability = vulnerability("Missile")
         /\ DoorForce(3, d).damage_vulnerability # vulnerability(VanillaDoor(3))

\* a door location whose override is neither "default" nor a variant name
UnknownOverrides ==
    { <<r, d>> \in UNION { {r} \X DockDoors(r) : r \in Rooms } :
        /\ ~SkippedRoom(r)
        /\ Override(r, d) = "bogus" }

\* C9: with an override that is neither "default" nor a variant name the run
\* ends with an error before any patch is applied, and no door patch is ever
\* registered for that door with a type chosen in its place
C9_UnknownOverrideIsError ==
    UnknownOverrides # {} =>
        /\ applied = << >>
        /\ pc \in {"patch_iso", "build_and_run_patches", "register", "done"}
        /\ pc = "done" => result = "Err"
        /\ \A i \in DOMAIN patcher :
             patcher[i].callback = "patch_door" =>
                <<patcher[i].room, patcher[i].args.door_location>> \notin UnknownOverrides

----------------------------------------------------------------------------
(* The properties of the door catalog *)

\* C10: the vertical type to_vertical gives for a base type has the base
\* type's vulnerability in every field, charged_beams and beam_combos
\* included, and the base type's force field texture
C10_VerticalMirrorsBase ==
    (cat_op = "to_vertical" /\ is_vertical(cat_out) /\ ~is_vertical(cat_in)) =>
        /\ vulnerability(cat_out) = vulnerability(cat_in)
        /\ forcefield_txtr(cat_out) = forcefield_txtr(cat_in)

\* to_vertical applied to Missile
C10_MissileToVertical ==
    /\ cat_op = "to_vertical"
    /\ cat_in = "Missile"
    /\ cat_out = "VerticalMissile"

\* the values of every field of a DamageVulnerability, the fields of
\* charged_beams and beam_combos included
FieldValues(v) ==
    { v[f] : f \in DOMAIN v \ {"charged_beams", "beam_combos"} }
    \cup { v.charged_beams[f] : f \in DOMAIN v.charged_beams }
    \cup { v.beam_combos[f] : f \in DOMAIN v.beam_combos }

\* C11: for every door type of DoorType::iter() and every BlastShieldType,
\* every field of vulnerability(), each field of charged_beams and
\* beam_combos included, is Normal (1), Reflect (2) or Immune (3); no field
\* is 0 or any other value
C11_VulnerabilityFieldsEnumerated ==
    cat_op \in {"vulnerability", "BlastShieldType::vulnerability"} =>
        /\ DOMAIN cat_out = {"power", "ice", "wave", "plasma", "bomb", "power_bomb",
                             "missile", "boost_ball", "phazon", "enemy_weapon0",
                             "enemy_weapon1", "enemy_weapon2", "enemy_weapon3",
                             "unknown_weapon0", "unknown_weapon1", "unknown_weapon2",
                             "charged_beams", "beam_combos"}
        /\ FieldValues(cat_out) \subseteq {Normal, Reflect, Immune}
        /\ FieldValues(cat_out) \subseteq {1, 2, 3}

\* BlastShieldType::Wavebuster.vulnerability() was evaluated: the wave combo
\* is the one Normal field
C11_WavebusterShieldEvaluated ==
    /\ cat_op = "BlastShieldType::vulnerability"
    /\ cat_in = "Wavebuster"
    /\ cat_out.beam_combos.wave = Normal

\* C12: for every DoorType and every BlastShieldType v, dependencies(v) is
\* non-empty, contains no (id, type) pair twice, and contains the pair
\* (primary model id of v, CMDL)
C12_DependenciesWellFormed ==
    /\ cat_op = "dependencies" =>
          /\ cat_out # << >>
          /\ \A i, j \in DOMAIN cat_out : cat_out[i] = cat_out[j] => i = j
          /\ <<shield_cmdl(cat_in), "CMDL">> \in SeqToSet(cat_out)
    /\ cat_op = "BlastShieldType::dependencies" =>
          /\ cat_out # << >>
          /\ \A i, j \in DOMAIN cat_out : cat_out[i] = cat_out[j] => i = j
          /\ <<BlastShieldType_cmdl(cat_in), "CMDL">> \in SeqToSet(cat_out)

----------------------------------------------------------------------------
(* The properties of DoorType::from_string *)

\* C13: DoorType::from_string is total: it gives None or Some door type for
\* every string; it ignores case, surrounding whitespace, spaces and
\* underscores, so every spelling of a synonym gives the synonym's variant
\* ("wave" and "wavebeam" Purple; "plasma", "plasmabeam" and "red" Red); a
\* string that is no spelling of a synonym (e.g. "bogus") gives None
C13_FromStringTable ==
    cat_op = "from_string" =>
        /\ cat_out = None \/ \E dt \in DoorType : cat_out = Some(dt)
        /\ \A e \in SynonymTable : cat_in \in Spellings(e[1]) => cat_out = Some(e[2])
        /\ cat_in \in Spellings(<<"w", "a", "v", "e">>) => cat_out = Some("Purple")
        /\ cat_in \in Spellings(<<"p", "l", "a", "s", "m", "a">>) => cat_out = Some("Red")
        /\ cat_in \in UnknownNames => cat_out = None

\* from_string was applied to "\t_PL ASMABEAM \r\n" and gave Red
C13_PlasmaBeamSpelled ==
    /\ cat_op = "from_string"
    /\ cat_in = <<"\t", "_", "P", "L", " ", "A", "S", "M", "A", "B", "E", "A", "M",
                  " ", "\r", "\n">>
    /\ cat_out = Some("Red")

----------------------------------------------------------------------------
(* The properties of the generated assets *)

\* the length of the serialized form of a generated resource before padding:
\* four bytes for each texture id (or for the CMDL id of an ANCS) and the data
UnpaddedLen(res) ==
    IF res.fourcc = "CMDL" THEN 4 * cat_in.textures + cat_in.len ELSE 4 + cat_in.len

----------------------------------------------------------------------------
(* The properties of the patches of single areas *)

\* the area the callback was applied to
AreaBefore == AreaWithout(cat_in.patch, cat_in.missing)

\* the resource ids the properties of a script object name
ResourceIds(obj) ==
    { obj.property_data[f] :
        f \in DOMAIN obj.property_data
                \cap {"cmdl", "ancs", "color_txtr", "pattern_txtr0", "pattern_txtr1", "scan"} }
    \ { Id(\hFFFF, \hFFFF) }

\* the resource ids the object with this instance id named before the callback
ResourceIdsBefore(instance_id) ==
    UNION { ResourceIds(AreaBefore.layers[l][i]) :
            <<l, i>> \in { <<m, j>> \in (1..3) \X (1..8) :
                            /\ j \in DOMAIN AreaBefore.layers[m]
                            /\ AreaBefore.layers[m][j].instance_id = instance_id } }

\* C15: after an area patch has returned Ok, every resource id a script
\* object of the area names and did not name before the patch is in the
\* dependency list of the object's layer: the callback that made the object
\* name it registered it
C15_NewReferencesRegistered ==
    (cat_op \in AreaPatches /\ result = "Ok") =>
        \A l \in DOMAIN areas[1].layers : \A i \in DOMAIN areas[1].layers[l] :
            \A id \in ResourceIds(areas[1].layers[l][i])
                        \ ResourceIdsBefore(areas[1].layers[l][i].instance_id) :
                \E d \in DOMAIN areas[1].dependencies[l] :
                    areas[1].dependencies[l][d][1] = id

\* C16: an area patch applied to an area that lacks a script object the
\* patch looks up by a fixed instance id aborts the pipeline; it never skips
\* the object and returns Ok
C16_MissingObjectAborts ==
    (cat_op \in AreaPatches /\ cat_in.missing \cap LookedUp(cat_in.patch) # {}) =>
        result = "panic"

\* C17: after an area patch the instance ids of the area are pairwise
\* distinct across all its layers, and every script object the patch
\* inserted has an id the fresh id allocator yielded
C17_IdsUniqueAndAllocated ==
    cat_op \in AreaPatches =>
        /\ \A l, m \in DOMAIN areas[1].layers :
             \A i \in DOMAIN areas[1].layers[l], j \in DOMAIN areas[1].layers[m] :
                areas[1].layers[l][i].instance_id = areas[1].layers[m][j].instance_id
                    => (l = m /\ i = j)
        /\ InstanceIds(areas) \ InstanceIds(<< AreaBefore >>) \subseteq SeqToSet(allocated)


----------------------------------------------------------------------------
(* The properties of the resource id ranges *)

\* every id custom_asset_ids gives a name, and the ids from
\* SKIP_HUDMEMO_STRG_START to SKIP_HUDMEMO_STRG_END
CustomAssetIds ==
    { custom_asset_ids(n) : n \in SeqToSet(LibAssetNames) \cup SeqToSet(DoorAssetNames) }
    \cup { Id(SKIP_HUDMEMO_STRG_START[1], SKIP_HUDMEMO_STRG_START[2] + k) : k \in 0..37 }

\* the resource ids a catalog function has returned
EvaluatedIds ==
    IF cat_op \in {"forcefield_txtr", "shield_cmdl"} THEN { cat_out }
    ELSE IF cat_op \in {"dependencies", "BlastShieldType::dependencies"}
         THEN { cat_out[i][1] : i \in DOMAIN cat_out }
         ELSE {}

\* the CMDLs collect_door_resources generates when the pool holds both bases
GeneratedDoorCmdls ==
    SeqToSet(NewDoorAssets([k \in { resource_info("blueShield_v1.CMDL"),
                                    resource_info("18D0AEE6.CMDL") } |-> "found"],
                           DoorTypeIter).assets)

----------------------------------------------------------------------------
(* The properties of the totem scan texts *)

\* the artifact with number a, 0 for Lifegiver to 11 for Strength
ArtifactNumbered(a) == PickupTypeIter[idx("ArtifactOfLifegiver") + 1 + a]

\* the first location, in layout order, that holds the artifact; 0 if none
FirstLocationOf(a) ==
    LET names == names_iter(cat_in.rooms)
        holding == { i \in 1..Len(cat_in.pickup_layout) :
                        i <= Len(names) /\ cat_in.pickup_layout[i] = ArtifactNumbered(a) }
    IN  IF holding = {} THEN 0 ELSE CHOOSE i \in holding : \A j \in holding : i <= j

InArtifactTemple(location) == names_iter(cat_in.rooms)[location][1] = Id(\h2398, \hE906)

\* the artifact is the first whose location is in the Artifact Temple, the
\* one room with a template of its own
TakesRoomTemplate(a) ==
    /\ FirstLocationOf(a) # 0
    /\ InArtifactTemple(FirstLocationOf(a))
    /\ \A b \in 0..11 :
         (0 < FirstLocationOf(b) /\ FirstLocationOf(b) < FirstLocationOf(a))
            => ~InArtifactTemple(FirstLocationOf(b))

\* how many artifacts have taken a generic template when a has taken its own
GenericRank(a) ==
    1 + Cardinality({ b \in 0..11 :
                        /\ 0 < FirstLocationOf(b)
                        /\ FirstLocationOf(b) < FirstLocationOf(a)
                        /\ ~TakesRoomTemplate(b) })

TotemText(a) ==
    IF FirstLocationOf(a) = 0
    THEN << "Artifact not present. This layout may not be completable." >>
    ELSE IF TakesRoomTemplate(a)
    THEN << pickup_name(ArtifactNumbered(a)), " awaits those who truly seek it." >>
    ELSE LET template == generic_text_templates[cat_in.permutation[GenericRank(a)]]
         IN  << template[1], names_iter(cat_in.rooms)[FirstLocationOf(a)][2], template[3] >>

\* C19: the text of each of the 12 artifacts is made from the first location
\* in layout order that holds it, with the template of the location's room if
\* the room has one that is not used yet and otherwise with the next unused
\* template of the shuffled generic ones; no template is used twice, the
\* generic ones do not run out, and an artifact the layout does not hold
\* gets the "Artifact not present" text
C19_TotemTexts ==
    cat_op = "build_artifact_temple_totem_scan_strings" =>
        /\ ~cat_out.panicked
        /\ \A a \in 0..11 : cat_out.scan_text[a + 1] = TotemText(a)
        /\ \A i, j \in DOMAIN cat_out.used : cat_out.used[i] = cat_out.used[j] => i = j
        /\ cat_out.generic_next <= Len(generic_text_templates) + 1

\* Wild and Lifegiver both in the Artifact Temple, Wild again in Main Plaza:
\* Wild has the room's template, Lifegiver the first generic one
C19_TwoArtifactsInTemple ==
    /\ cat_op = "build_artifact_temple_totem_scan_strings"
    /\ cat_in.pickup_layout = << "ArtifactOfWild", "ArtifactOfLifegiver", "ArtifactOfWild" >>
    /\ cat_in.rooms[1].name = "Artifact Temple"
    /\ Len(cat_in.rooms[1].pickup_locations) = 2
    /\ cat_in.permutation = [i \in 1..12 |-> i]
    /\ cat_out.scan_text[2] = << "Artifact of Wild", " awaits those who truly seek it." >>
    /\ cat_out.scan_text[1][2] = "Artifact Temple"
    /\ cat_out.scan_text[1][1] = generic_text_templates[1][1]
    /\ cat_out.scan_text[12] = << "Artifact not present. This layout may not be completable." >>

----------------------------------------------------------------------------
(* The properties of the door types of a run *)

\* the inputs of a second run with the same seed, weights, skip flags and
\* patch_vertical_to_blue
SecondRuns ==
    { other \in DoorTypeInputs :
        /\ other.seed = cat_in.seed
        /\ other.chozo_ruins = cat_in.chozo_ruins
        /\ other.skip_frigate = cat_in.skip_frigate
        /\ other.patch_vertical_to_blue = cat_in.patch_vertical_to_blue }

\* the door locations with the same override in both runs
SameOverride(other, r, d) ==
    LET level == Level(PICKUP_LOCATIONS[r].pak)
        name == PICKUP_LOCATIONS[r].name
    IN  DoorTypeConfig(other).excluded_doors[level][name][d.dock_number[1] + 1]
            = DoorTypeConfig(cat_in).excluded_doors[level][name][d.dock_number[1] + 1]

\* the door patches of the room loop for a door location
PatchesAt(types, r, d) == { p \in types.doors : p[1] = r /\ p[2] = d }

\* the room loop registers the same type in both runs for a door location
\* that has the same override in both
LoopDoorsAgree(other, theirs) ==
    \A r \in Rooms : \A d \in DockDoors(r) :
        SameOverride(other, r, d) => PatchesAt(theirs, r, d) = PatchesAt(cat_out, r, d)

\* C20, as the claim states it: two runs with the same seed, weights, skip
\* flags and patch_vertical_to_blue give a door location with the same
\* override in both the same door type, the vault ledge door of Main Plaza
\* included, whatever the other overrides, the pickup layout and
\* is_item_randomized are
C20_DoorTypeOfOwnOverride ==
    (cat_op = "door_types" /\ ~cat_out.panicked) =>
        \A other \in SecondRuns :
            \E theirs \in { door_types(DoorTypeConfig(other), TRUE) } :
                /\ LoopDoorsAgree(other, theirs)
                /\ other.vault = cat_in.vault => theirs.vault_ledge = cat_out.vault_ledge

\* C20, amended: the same for the door locations of the room loop; the vault
\* ledge door has the same type in both runs when they also agree on
\* is_item_randomized and place the same number of Missiles from the pickup
\* layout
C20_DoorTypeOfOwnOverrideAndMissiles ==
    (cat_op = "door_types" /\ ~cat_out.panicked) =>
        \A other \in SecondRuns :
            \E theirs \in { door_types(DoorTypeConfig(other), TRUE) } :
                /\ LoopDoorsAgree(other, theirs)
                /\ (/\ other.vault = cat_in.vault
                    /\ other.is_item_randomized = cat_in.is_item_randomized
                    /\ shiny_draws(DoorTypeConfig(other)) = shiny_draws(DoorTypeConfig(cat_in))) =>
                     theirs.vault_ledge = cat_out.vault_ledge

\* a run that draws the type of the Ice Ruins East door, with the Main Plaza
\* door named and the Tower Chamber door drawn, two Missiles placed and the
\* vault ledge door drawn
C20_IceRuinsDoorDrawn ==
    /\ cat_op = "door_types"
    /\ ~cat_out.panicked
    /\ cat_in.plaza = "missile"
    /\ cat_in.tower = "random"
    /\ cat_in.vault = "default"
    /\ shiny_draws(DoorTypeConfig(cat_in)) = 2
    /\ cat_out.vault_ledge # None
    /\ \E p \in cat_out.doors : p[1] = 3
    /\ \E p \in cat_out.doors : p[1] = 4 /\ p[3] \in {"Purple", "White", "Red"}

----------------------------------------------------------------------------
(* The properties of the hudmemo of a pickup location *)

\* the hudmemo a pickup patch has written
HudmemoWritten ==
    /\ cat_op = "modify_pickups_in_mrea"
    /\ cat_out.status = "Ok"

\* the STRG the hudmemo references is a dependency of the new layer
HudmemoStrgRegistered ==
    HudmemoWritten => <<cat_out.hudmemo.strg, "STRG">> \in SeqToSet(cat_out.dependencies)

\* C21: with skip_hudmenus set the hudmemo of the locations 23, 50 and 63
\* keeps its memo_type and first_message_timer and references the regular
\* hudmemo STRG, the hudmemo of every other location gets memo_type 0, timer 5
\* and the skip-hudmemo STRG, and the STRG of the hudmemo is the one registered
\* as a dependency of the new layer
C21_AlwaysModalLocations ==
    (HudmemoWritten /\ cat_in.skip_hudmenus) =>
        /\ cat_in.location_idx \in {23, 50, 63} =>
              cat_out.hudmemo = HudMemo(cat_in.first_message_timer, cat_in.memo_type,
                                        hudmemo_strg(cat_in.pickup_type))
        /\ cat_in.location_idx \notin {23, 50, 63} =>
              cat_out.hudmemo = HudMemo(5, 0, skip_hudmemos_strg(cat_in.pickup_type))
        /\ <<cat_out.hudmemo.strg, "STRG">> \in SeqToSet(cat_out.dependencies)

----------------------------------------------------------------------------
(* The properties of the steps of the collectors *)

\* the resources of a pak the scan has passed so far
Scanned(name) ==
    LET all == CollectDisc.paks[name]
    IN  IF IndexOf(PakNames, name) < cat_out.pak THEN all
        ELSE IF IndexOf(PakNames, name) > cat_out.pak THEN << >>
        ELSE SubSeq(all, 1, Len(all) - Len(cat_out.resources))

\* the paks in scan order whose scanned part holds the key
ScannedPaksWith(key) ==
    SelectSeq(PakNames, LAMBDA name : key \in SeqToSet(Scanned(name)))

\* the collector, run as one function, gives the pool the steps arrive at
CollectStepsAgree ==
    (cat_out.phase = "done" \/ cat_out.st.panicked) =>
        LET whole == IF cat_in.collector = "pickup"
                     THEN collect_pickup_resources(CollectDisc)
                     ELSE collect_door_resources(CollectDisc)
        IN  /\ whole.panicked = cat_out.st.panicked
            /\ ~whole.panicked => whole.found = cat_out.st.found

\* after a step looking_for and the keys of found are disjoint and together
\* hold the initial looking_for, no insert assertion has failed, and a key
\* found in the paks comes from the first pak in scan order that holds it
OutstandingAndPool ==
    LET st == cat_out.st
        initial == CollectStart(cat_in).st.looking_for
    IN  /\ st.looking_for \cap DOMAIN st.found = {}
        /\ initial \subseteq (st.looking_for \cup DOMAIN st.found)
        /\ st.panicked => cat_out.step \notin {"extra", "resource", "new_asset"}
        /\ \A key \in DOMAIN st.found :
              st.found[key] \in SeqToSet(PakNames) =>
                  /\ ScannedPaksWith(key) # << >>
                  /\ st.found[key] = Head(ScannedPaksWith(key))

\* a step adds at most one key to found, takes that key out of looking_for,
\* and leaves every entry found has as it is
MovedOnce ==
    /\ \A key \in DOMAIN cat_out.st.found :
          /\ key \in DOMAIN cat_out'.st.found
          /\ cat_out'.st.found[key] = cat_out.st.found[key]
    /\ Cardinality(DOMAIN cat_out'.st.found \ DOMAIN cat_out.st.found) <= 1
    /\ \A key \in DOMAIN cat_out'.st.found \ DOMAIN cat_out.st.found :
          key \notin cat_out'.st.looking_for

\* C22: after every step of a collector (each extra asset, each scanned pak
\* resource, each generated asset) looking_for and the keys of found are
\* disjoint and their union holds the initial looking_for; a key is moved
\* into found at most once, no entry of found is overwritten and no insert
\* assertion fails; a key held by several paks is served by the first pak in
\* scan order
C22_OutstandingAndPool == []OutstandingAndPool /\ [][MovedOnce]_vars

\* a collector that has returned a pool in which a key held by two paks is
\* served by the first of them
C22_ServedByFirstPak ==
    /\ cat_out.phase = "done"
    /\ ~cat_out.st.panicked
    /\ \E key \in DOMAIN cat_out.st.found :
          /\ Len(ScannedPaksWith(key)) >= 2
          /\ cat_out.st.found[key] = Head(ScannedPaksWith(key))

----------------------------------------------------------------------------
(* The properties of fix_artifact_of_truth_requirements *)

\* the layer of the Artifact Temple that stands for the artifact of a kind
ArtifactLayer(k) == IF k = 29 THEN 24 ELSE k - 28

TruthLayoutIn == TruthLayout(cat_in.artifacts, cat_in.temple, cat_in.length)

\* C23: after fix_artifact_of_truth_requirements the flag of the layer of
\* each artifact kind k in 29..40 is cleared exactly when the layout has an
\* entry of kind k and the entry at location 63 is not of kind k, and set
\* otherwise; one layer is added; the function aborts when the area does not
\* have 24 layers; the new relay is in layer 24 and its id is fresh
C23_TruthLayerFlags ==
    cat_op = "fix_artifact_of_truth_requirements" =>
        /\ cat_in.layers # 24 => cat_out.status = "panic"
        /\ cat_out.status = "Ok" =>
              /\ \A k \in 29..40 :
                    FlagBit(cat_out.area.flags, ArtifactLayer(k)) = 0
                        <=> /\ \E j \in DOMAIN TruthLayoutIn : pickup_kind(TruthLayoutIn[j]) = k
                            /\ pickup_kind(TruthLayoutIn[63 + 1]) # k
              /\ Len(cat_out.area.layers) = cat_in.layers + 1
              /\ Len(cat_out.area.layers[24 + 1]) = 1
              /\ cat_out.area.layers[24 + 1][1].property_data.kind = "Relay"
              /\ cat_out.area.layers[24 + 1][1].instance_id
                    \notin InstanceIds(<<TruthArea(cat_in)>>)
              /\ \A l \in 1..24 : \A i \in DOMAIN cat_out.area.layers[l] :
                    cat_out.area.layers[l][i].instance_id
                        # cat_out.area.layers[24 + 1][1].instance_id

\* a run on the full set of artifacts with one of them in the Artifact
\* Temple: its layer is set, the layers of the others are cleared
C23_TempleArtifactActive ==
    /\ cat_op = "fix_artifact_of_truth_requirements"
    /\ cat_out.status = "Ok"
    /\ Len(cat_in.artifacts) = 11
    /\ cat_in.temple = "ArtifactOfStrength"
    /\ cat_in.flags = 2 ^ 24 + 2 ^ 5 + 2 ^ 1
    /\ FlagBit(cat_out.area.flags, ArtifactLayer(pickup_kind("ArtifactOfStrength"))) = 1
    /\ FlagBit(cat_out.area.flags, ArtifactLayer(pickup_kind("ArtifactOfLifegiver"))) = 0

----------------------------------------------------------------------------
(* The properties of calculate_door_type *)

\* the table calculate_door_type uses for the pak of the input
DrawnFrom == RegionWeights(cat_in.pak_name, DrawWeights(cat_in.table))

\* the draw Uniform::from(0..100) gives from the generator of the input
Draw == sample(cat_in.rng).num

\* C24: with the weights of the region summing to 100 and a draw d in 0..99
\* calculate_door_type returns Blue for d < w0, Purple for w0 <= d < w0 + w1,
\* White for w0 + w1 <= d < w0 + w1 + w2 and Red otherwise, and does not
\* panic; Metroid7.pak gives Red and a pak that is none of the region paks
\* gives Blue, whatever the configured weights are
C24_DoorTypeOfDraw ==
    (cat_op = "calculate_door_type"
     /\ DrawnFrom[1] + DrawnFrom[2] + DrawnFrom[3] + DrawnFrom[4] = 100
     /\ Draw \in 0..99) =>
        /\ ~cat_out.panicked
        /\ cat_out.door_type \in {"Blue", "Purple", "White", "Red"}
        /\ cat_out.door_type =
              IF Draw < DrawnFrom[1] THEN "Blue"
              ELSE IF Draw < DrawnFrom[1] + DrawnFrom[2] THEN "Purple"
              ELSE IF Draw < DrawnFrom[1] + DrawnFrom[2] + DrawnFrom[3] THEN "White"
              ELSE "Red"
        /\ cat_in.pak_name = "Metroid7.pak" => cat_out.door_type = "Red"
        /\ cat_in.pak_name \notin {"Metroid2.pak", "Metroid3.pak", "Metroid4.pak",
                                   "metroid5.pak", "Metroid6.pak", "Metroid7.pak"}
              => cat_out.door_type = "Blue"

\* a draw that is exactly w0 + w1 of the Chozo Ruins table gives White
C24_DrawOnBoundary ==
    /\ cat_op = "calculate_door_type"
    /\ cat_in.pak_name = "Metroid2.pak"
    /\ cat_in.table = <<10, 20, 30, 40>>
    /\ Draw = 30
    /\ ~cat_out.panicked
    /\ cat_out.door_type = "White"

----------------------------------------------------------------------------
(* The properties of the artifact layers *)

\* the layers whose flag depends on the pickup of the input being in the layout
HeldBackLayers == { n \in 0..25 : FlagBit(cat_out.with, n) # FlagBit(cat_out.without, n) }

\* the layer change functions the pickup patch has put into its layer
LayerChangeFunctions ==
    { i \in DOMAIN cat_out.new_layer :
        cat_out.new_layer[i].property_data.kind = "SpecialFunction" }

\* C25: the pickup patch of an artifact of kind k in 29..40 creates a layer
\* change function for room 0xCD2B0EA2 whose layer is the one
\* fix_artifact_of_truth_requirements holds back for kind k, 24 for k = 29
\* and k - 28 otherwise; for any other kind it creates none; and the pickup
\* patch never fails the assertion of artifact_layer_change_template
C25_LayerSwitchedIsLayerHeldBack ==
    cat_op = "layer_change" =>
        LET k == pickup_kind(cat_in.pickup_type)
        IN  /\ cat_out.status = "Ok"
            /\ k \in 29..40 =>
                  /\ Cardinality(LayerChangeFunctions) = 1
                  /\ \A i \in LayerChangeFunctions :
                        /\ cat_out.new_layer[i].property_data.layer_change_room_id
                              = Id(\hCD2B, \h0EA2)
                        /\ HeldBackLayers
                              = { cat_out.new_layer[i].property_data.layer_change_layer_id }
                        /\ cat_out.new_layer[i].property_data.layer_change_layer_id
                              = IF k = 29 THEN 24 ELSE k - 28
            /\ k \notin 29..40 => LayerChangeFunctions = {} /\ HeldBackLayers = {}

\* the pickup patch of the artifact of kind 29: its function switches layer 24
C25_FirstKindSwitchesTruthLayer ==
    /\ cat_op = "layer_change"
    /\ cat_out.status = "Ok"
    /\ pickup_kind(cat_in.pickup_type) = 29
    /\ HeldBackLayers = {24}
    /\ \E i \in LayerChangeFunctions :
          cat_out.new_layer[i].property_data.layer_change_layer_id = 24

----------------------------------------------------------------------------
(* The properties of the pickup patches of a room *)

\* the pickup patches registered for room r, in registration order
PickupPatches(r) ==
    SelectSeq([i \in 1..Len(patcher) |-> i],
              LAMBDA i : /\ patcher[i].callback = "modify_pickups_in_mrea"
                         /\ patcher[i].room = r)

\* the callback has run and has not failed
RanOk(i) ==
    \E a \in DOMAIN applied :
        /\ applied[a] = i
        /\ ~(result \in {"Err", "panic"} /\ a = Len(applied))

\* the object of a script object location in an area
ObjectAt(area, loc) ==
    area.layers[loc.layer + 1][FindObject(area.layers[loc.layer + 1], loc.instance_id)]

\* the k-th pickup patch of room r has put its objects into the layer it
\* created and connected the pickup to them
OwnLayerFilled(r, k) ==
    LET original_count == Len(InputAreas[r].layers)
        patch == patcher[PickupPatches(r)[k]]
        artifact == pickup_kind(patch.args.pickup_type) \in 29..40
        layer == areas[r].layers[original_count + k]
        ids == { layer[i].instance_id : i \in DOMAIN layer }
        location == patch.args.pickup_location.location
    IN  /\ Len(layer) = IF artifact THEN 2 ELSE 1
        /\ layer[1].property_data.kind = "Relay"
        /\ artifact => layer[2].property_data.kind = "SpecialFunction"
        /\ Cardinality(ids) = Len(layer)
        /\ ids \subseteq SeqToSet(allocated)
        /\ ids \cap InstanceIds(InputAreas) = {}
        /\ \A s \in Rooms : \A l \in DOMAIN areas[s].layers :
              (s # r \/ l # original_count + k) =>
                  \A i \in DOMAIN areas[s].layers[l] :
                      areas[s].layers[l][i].instance_id \notin ids
        /\ ObjectAt(areas[r], location).connections
              = ObjectAt(InputAreas[r], location).connections
                \o << <<"ARRIVED", "SET_TO_ZERO", layer[1].instance_id>> >>
                \o (IF artifact THEN << <<"ARRIVED", "INCREMENT", layer[2].instance_id>> >>
                    ELSE << >>)

\* C26: when the first m pickup patches of a room have run the area has m
\* more layers than on the input disc, n more after all n of them; the k-th
\* patch has put its relay, and for an artifact its layer change function,
\* into the layer original_count + k - 1 and into no other, and the pickup it
\* patched has one more ARRIVED connection for each of them, to its fresh id
C26_PickupPatchLayers ==
    \A r \in Rooms :
        LET ran == { k \in 1..Len(PickupPatches(r)) : RanOk(PickupPatches(r)[k]) }
        IN  /\ Len(areas[r].layers) = Len(InputAreas[r].layers) + Cardinality(ran)
            /\ \A k \in ran : (1..k) \subseteq ran /\ OwnLayerFilled(r, k)

\* both pickup patches of Main Plaza have run, the second for an artifact
C26_TwoLayersOnMainPlaza ==
    /\ result = "Ok"
    /\ Len(PickupPatches(2)) = 2
    /\ Len(areas[2].layers) = Len(InputAreas[2].layers) + 2
    /\ Len(areas[2].layers[Len(InputAreas[2].layers) + 1]) = 1
    /\ Len(areas[2].layers[Len(InputAreas[2].layers) + 2]) = 2

----------------------------------------------------------------------------
(* The properties of the door patches the room loop registers *)

\* the door type each of the fourteen recognised names stands for
NamedDoorType ==
    [name \in { "blue", "purple", "white", "red", "power_bomb", "bomb", "missile", "charge",
                "super", "wavebuster", "icespreader", "flamethrower", "disabled", "ai" } |->
        CASE name = "blue" -> "Blue"
          [] name = "purple" -> "Purple"
          [] name = "white" -> "White"
          [] name = "red" -> "Red"
          [] name = "power_bomb" -> "PowerBomb"
          [] name = "bomb" -> "Bomb"
          [] name = "missile" -> "Missile"
          [] name = "charge" -> "Charge"
          [] name = "super" -> "Super"
          [] name = "wavebuster" -> "Wavebuster"
          [] name = "icespreader" -> "Icespreader"
          [] name = "flamethrower" -> "Flamethrower"
          [] name = "disabled" -> "Disabled"
          [] name = "ai" -> "Ai"]

\* the patches with the callback registered for a door location of room r
RegisteredAt(callback, r, d) ==
    { i \in DOMAIN cat_out.patches :
        /\ cat_out.patches[i].callback = callback
        /\ cat_out.patches[i].room = r
        /\ cat_out.patches[i].args.door_location = d }

RegisterSkipped(r) ==
    \/ (Level(PICKUP_LOCATIONS[r].pak) = 0 /\ cat_in.skip_frigate)
    \/ (Level(PICKUP_LOCATIONS[r].pak) = 6 /\ cat_in.skip_impact_crater)

\* C27: for a door location with a dock number in a pak that is not skipped:
\* a vertical door with patch_vertical_to_blue set gets a door patch of type
\* VerticalBlue whatever its override is; otherwise the override "default"
\* gets no door patch and no map icon patch; otherwise one of the fourteen
\* names gets the named type, through to_vertical for a vertical door. A door
\* location without a dock number gets no door patch
C27_RegisteredDoorType ==
    (cat_op = "register" /\ ~cat_out.panicked) =>
        \A r \in { q \in Rooms : ~RegisterSkipped(q) } :
            \A d \in SeqToSet(PICKUP_LOCATIONS[r].door_locations) :
                LET doors == RegisteredAt("patch_door", r, d)
                    icons == RegisteredAt("patch_map_door_icon", r, d)
                    types == { cat_out.patches[i].args.door_type : i \in doors }
                    override ==
                        RegisterConfig(cat_in).excluded_doors
                            [Level(PICKUP_LOCATIONS[r].pak)][PICKUP_LOCATIONS[r].name]
                            [d.dock_number[1] + 1]
                    vertical == is_vertical_door(PICKUP_LOCATIONS[r].room_id,
                                                 d.dock_number[1])
                IN  IF d.dock_number = None THEN doors = {}
                    ELSE IF vertical /\ cat_in.patch_vertical_to_blue
                    THEN Cardinality(doors) = 1 /\ types = {"VerticalBlue"}
                    ELSE IF override = "default" THEN doors = {} /\ icons = {}
                    ELSE override \in DOMAIN NamedDoorType =>
                            /\ Cardinality(doors) = 1
                            /\ types = { IF vertical THEN to_vertical(NamedDoorType[override])
                                         ELSE NamedDoorType[override] }

\* the Tower Chamber door named "ai" and not turned blue: VerticalAi is
\* registered for it, and Disabled for the Main Plaza door
C27_TowerDoorVerticalAi ==
    /\ cat_op = "register"
    /\ ~cat_out.panicked
    /\ cat_in.tower = "ai"
    /\ cat_in.plaza = "disabled"
    /\ ~cat_in.patch_vertical_to_blue
    /\ \E i \in DOMAIN cat_out.patches :
          /\ cat_out.patches[i].callback = "patch_door"
          /\ cat_out.patches[i].room = 3
          /\ cat_out.patches[i].args.door_type = "VerticalAi"
    /\ \E i \in DOMAIN cat_out.patches :
          /\ cat_out.patches[i].callback = "patch_door"
          /\ cat_out.patches[i].room = 2
          /\ cat_out.patches[i].args.door_type = "Disabled"

----------------------------------------------------------------------------
(* The properties of patch_starting_pickups *)

\* bit k of a u64
BitOf(x, k) == (x[(k \div 16) + 1] \div (2 ^ (k % 16))) % 2

RECURSIVE BitsOf(_, _, _)
\* the number the width bits from bit offset on spell, lowest bit first
BitsOf(x, offset, width) ==
    IF width = 0 THEN 0 ELSE BitOf(x, offset) + 2 * BitsOf(x, offset + 1, width - 1)

\* the fixed layout: the first bit and the width of every field
StartingItemLayout ==
    [scan_visor |-> <<0, 1>>, missiles |-> <<1, 8>>, energy_tanks |-> <<9, 4>>,
     power_bombs |-> <<13, 4>>, wave |-> <<17, 1>>, ice |-> <<18, 1>>, plasma |-> <<19, 1>>,
     charge |-> <<20, 1>>, morph_ball |-> <<21, 1>>, bombs |-> <<22, 1>>,
     spider_ball |-> <<23, 1>>, boost_ball |-> <<24, 1>>, varia_suit |-> <<25, 1>>,
     gravity_suit |-> <<26, 1>>, phazon_suit |-> <<27, 1>>, thermal_visor |-> <<28, 1>>,
     xray |-> <<29, 1>>, space_jump |-> <<30, 1>>, grapple |-> <<31, 1>>,
     super_missile |-> <<32, 1>>, wavebuster |-> <<33, 1>>, ice_spreader |-> <<34, 1>>,
     flamethrower |-> <<35, 1>>]

StartingItemsGiven ==
    IF cat_in.starting_items = None THEN U64(1, 0, 0, 0) ELSE cat_in.starting_items[1]

\* C28: every spawn point of the area has, in every field, the bits of
\* starting_items the fixed 36-bit layout gives the field, lowest bit first,
\* so all spawn points have the same values and the bits above bit 35 have
\* no effect; the other objects are as they were; the default is the scan
\* visor only
C28_StartingItemsDecoded ==
    cat_op = "starting_pickups" =>
        /\ cat_out.result = "Ok"
        /\ DOMAIN cat_out.area.layers = DOMAIN SpawnAreas[cat_in.area].layers
        /\ \A l \in DOMAIN cat_out.area.layers :
              /\ DOMAIN cat_out.area.layers[l] = DOMAIN SpawnAreas[cat_in.area].layers[l]
              /\ \A o \in DOMAIN cat_out.area.layers[l] :
                    LET before == SpawnAreas[cat_in.area].layers[l][o]
                        after == cat_out.area.layers[l][o]
                    IN  IF before.property_data.kind # "SpawnPoint" THEN after = before
                        ELSE /\ after.instance_id = before.instance_id
                             /\ after.property_data.kind = "SpawnPoint"
                             /\ DOMAIN after.property_data
                                    = DOMAIN StartingItemLayout \cup {"kind"}
                             /\ \A f \in DOMAIN StartingItemLayout :
                                    after.property_data[f]
                                        = BitsOf(StartingItemsGiven, StartingItemLayout[f][1],
                                                 StartingItemLayout[f][2])
                             /\ cat_in.starting_items = None =>
                                    \A f \in DOMAIN StartingItemLayout :
                                        after.property_data[f]
                                            = IF f = "scan_visor" THEN 1 ELSE 0

\* the two spawn points of a four-layer area decoded from the value with
\* every odd bit set up to bit 63: both get the same fields, 85 missiles
C28_TwoSpawnPointsDecoded ==
    /\ cat_op = "starting_pickups"
    /\ cat_in.area = 3
    /\ cat_in.starting_items = Some(U64(\hAAAA, \hAAAA, \hAAAA, \hAAAA))
    /\ cat_out.area.layers[2][1].property_data = cat_out.area.layers[4][1].property_data
    /\ cat_out.area.layers[2][1].property_data.missiles = 85
    /\ cat_out.area.layers[2][1].property_data.energy_tanks = 5
    /\ cat_out.area.layers[2][1].property_data.flamethrower = 1
    /\ cat_out.area.layers[2][1].property_data.scan_visor = 0

----------------------------------------------------------------------------
(* The properties of parse_layout *)

\* every byte is one of the 64 symbols of the layout table
InLayoutTable(bytes) == \A k \in DOMAIN bytes : position(LAYOUT_CHAR_TABLE, bytes[k]) # None

\* the number the bytes spell, checksum and data
LayoutNumber(bytes) == decoded_sum(layout_sum(bytes).sum)

\* the embedded checksum is not the sum of the chunks of the data
ChecksumDiffers(bytes, layout_data_size, checksum_size) ==
    /\ InLayoutTable(bytes)
    /\ embedded_checksum(LayoutNumber(bytes), layout_data_size, checksum_size)
        # computed_checksum(layout_data(LayoutNumber(bytes), layout_data_size, checksum_size),
                            checksum_size)

\* the data is more than the mixed-radix digits can hold: something is left
\* when all of them are taken out
DataTooLarge(bytes, layout_data_size, checksum_size, is) ==
    /\ InLayoutTable(bytes)
    /\ \E left \in { mixed_radix(Limbs(layout_data(LayoutNumber(bytes), layout_data_size,
                                                   checksum_size)), is, 0, Len(is)).sum } :
          \E k \in DOMAIN left : left[k] # 0

PickupDigits(has_scan_visor) == [k \in 1..100 |-> IF has_scan_visor THEN 37 ELSE 36]

ElevatorDigits == <<21>> \o [k \in 1..20 |-> 20]

\* the six ways a layout string is malformed
Malformed(text) ==
    LET elevators == SplitAtDot(text).elevator_bytes
        stripped == StripBang(SplitAtDot(text).pickup_bytes)
        pickups == stripped.pickup_bytes
        size == IF stripped.has_scan_visor THEN 521 ELSE 517
        check == IF stripped.has_scan_visor THEN 1 ELSE 5
    IN  \/ \E k \in DOMAIN text : text[k] >= 128
        \/ Len(elevators) # 16
        \/ Len(pickups) # 87
        \/ ~InLayoutTable(pickups)
        \/ ~InLayoutTable(elevators)
        \/ ChecksumDiffers(pickups, size, check)
        \/ ChecksumDiffers(elevators, 91, 5)
        \/ DataTooLarge(pickups, size, check, PickupDigits(stripped.has_scan_visor))
        \/ DataTooLarge(elevators, 91, 5, ElevatorDigits)

\* C29: for a malformed layout string (a character that is not ASCII, a part
\* before the first '.' that is not 16 characters, a pickup part that is not
\* 87 characters, a character outside the table, a checksum that differs, a
\* data value too large for the digits) parse_layout returns Err: it does
\* not return Ok and it does not panic
C29_MalformedIsErr ==
    (cat_op = "parse_layout" /\ Malformed(LayoutText(cat_in))) =>
        (~cat_out.panicked /\ cat_out.result = "Err")

----------------------------------------------------------------------------
(* The properties of a run on a disc that is item-randomized already *)

Callbacks == { cat_out.patches[i].callback : i \in DOMAIN cat_out.patches }

\* C30: when the input disc has randomprime.txt, the only patches registered
\* are door patches, door map icon patches and the map icon patch of the
\* Main Plaza: no pickup or object-removal patch, no file patch, no elevator,
\* starting item, totem, credits or fix-up patch, no locked-door patch of the
\* Main Plaza; and patches.rel is not added to the disc
C30_ItemRandomizedFrame ==
    (cat_op = "registered" /\ cat_in.randomprime_txt) =>
        /\ Callbacks \subseteq { "patch_door", "patch_map_door_icon",
                                 "patch_main_plaza_locked_door_map_icon" }
        /\ \A i \in DOMAIN cat_out.added : cat_out.added[i] # "patches.rel"

\* an item-randomized disc with the vault ledge door enabled and the map
\* patched: the three kinds of patches are all registered, and a run on the
\* same disc without randomprime.txt would register the others
C30_ThreeKindsRegistered ==
    /\ cat_op = "registered"
    /\ cat_in.randomprime_txt
    /\ cat_in.enable_vault_ledge_door
    /\ ~cat_out.panicked
    /\ Callbacks = { "patch_door", "patch_map_door_icon",
                     "patch_main_plaza_locked_door_map_icon" }
    /\ cat_out.added = << "randomprime.txt", "mpdr.txt" >>
    /\ \E done \in { Registered([FrameConfig(cat_in) EXCEPT
                                    !.is_item_randomized = Some(FALSE)], TRUE) } :
          { "modify_pickups_in_mrea", "remove_objects", "patch_dol", "make_elevators_patch",
            "patch_starting_pickups", "patch_credits",
            "make_main_plaza_locked_door_two_ways" }
            \subseteq { done.patches[i].callback : i \in DOMAIN done.patches }

====
